---- MODULE Spec2Model ----
(***************************************************************************)
(* A model of the in-memory protocol engine of InspIRCd: the mode registry *)
(* and mode processor of src/mode.cpp.  Strings are sequences of one       *)
(* character strings, so that truncation, comparison and searching are     *)
(* computed as the C++ code computes them.                                 *)
(***************************************************************************)
EXTENDS Integers, Sequences, FiniteSets, TLC

(***************************************************************************)
(* Bounds of the model                                                      *)
(***************************************************************************)
\* longest mask handed to CleanMask
MaxMaskLen == 4
\* size of the mode id space (ModeParser::MODEID_MAX), scaled down
MODEID_MAX == 2
\* longest mode parameter kept by TryMode (MODE_PARAM_MAX), scaled down
MODE_PARAM_MAX == 1
\* longest ChangeList of alternating changes handed to Process
MaxChanges == 10
\* the number of times CleanMask is applied to a mask
MaxCleans == 2
\* the clock stops at this second
MaxTime == 2
\* the Tick calls of one TickTimers call the model follows
MaxFired == 4
\* the most entries of the timer map while Tick callbacks add to it
MaxEntries == 3
\* the clock of the X-line store stops at this second
MaxClock == 6
\* the most characters after the # or #x of a numeric character reference
MaxDigits == 3
\* the most entries of the per-type lists of the log manager, all lists
\* together, and the highest count of a stream's types
MaxListed == 3
\* the most Log calls made from inside the OnLog calls of one publication
MaxNested == 1

NULL == "NULL"

(***************************************************************************)
(* Characters and strings                                                   *)
(***************************************************************************)
\* ASCII codes of the characters the model uses
Code ==
  [c \in {" ", "!", "#", "*", "+", ",", ".", "1", ":", "@", "A", "H", "K", "Z",
          "a", "b", "i", "k", "l", "n", "o", "q", "s", "v", "x", "y", "z", "~", "DEL"} |->
     CASE c = " " -> 32 [] c = "!" -> 33 [] c = "#" -> 35 [] c = "*" -> 42
       [] c = "+" -> 43 [] c = "," -> 44 [] c = "." -> 46 [] c = "1" -> 49
       [] c = ":" -> 58 [] c = "@" -> 64 [] c = "A" -> 65 [] c = "H" -> 72
       [] c = "K" -> 75 [] c = "Z" -> 90 [] c = "a" -> 97 [] c = "b" -> 98
       [] c = "i" -> 105 [] c = "k" -> 107 [] c = "l" -> 108
       [] c = "n" -> 110 [] c = "o" -> 111
       [] c = "q" -> 113 [] c = "s" -> 115 [] c = "v" -> 118 [] c = "x" -> 120
       [] c = "y" -> 121 [] c = "z" -> 122 [] c = "~" -> 126 [] c = "DEL" -> 127]

\* std::string::find_first_of(ch): the first index (from 1) holding ch, 0 for npos
FindFirstOf(s, ch) ==
  IF \E i \in 1..Len(s) : s[i] = ch
    THEN CHOOSE i \in 1..Len(s) : s[i] = ch /\ \A j \in 1..(i - 1) : s[j] # ch
    ELSE 0

\* std::string::find("::"): 0 for npos
FindColons(s) ==
  IF \E i \in 1..(Len(s) - 1) : s[i] = ":" /\ s[i + 1] = ":"
    THEN CHOOSE i \in 1..(Len(s) - 1) :
           /\ s[i] = ":" /\ s[i + 1] = ":"
           /\ \A j \in 1..(i - 1) : ~(s[j] = ":" /\ s[j + 1] = ":")
    ELSE 0

\* s[0] of a std::string: the terminating NUL when the string is empty
FirstChar(s) == IF Len(s) = 0 THEN "NUL" ELSE s[1]

\* std::string operator< : lexicographic order by character code
RECURSIVE StrLess(_, _)
StrLess(a, b) ==
  IF Len(b) = 0 THEN FALSE
  ELSE IF Len(a) = 0 THEN TRUE
  ELSE IF Code[a[1]] < Code[b[1]] THEN TRUE
  ELSE IF Code[a[1]] > Code[b[1]] THEN FALSE
  ELSE StrLess(Tail(a), Tail(b))

\* all strings over alphabet A of length at most n
RECURSIVE StringsUpTo(_, _)
StringsUpTo(A, n) ==
  IF n = 0 THEN {<<>>}
  ELSE LET shorter == StringsUpTo(A, n - 1)
       IN  shorter \cup {Append(s, c) : s \in shorter, c \in A}

(***************************************************************************)
(* ModeParser::CleanMask                                                    *)
(***************************************************************************)
CleanMaskDropsAt(mask) ==
  LET pos_of_pling == FindFirstOf(mask, "!")
      pos_of_at == FindFirstOf(mask, "@")
      pos_of_dot == FindFirstOf(mask, ".")
      pos_of_colons == FindColons(mask)
  IN  IF Len(mask) >= 2 /\ mask[2] = ":" THEN mask
      ELSE IF pos_of_pling = 0 /\ pos_of_at = 0
        THEN IF pos_of_dot = 0 /\ pos_of_colons = 0 /\ FirstChar(mask) # ":"
               THEN mask \o <<"!", "*">>
               ELSE <<"*", "!", "*", "@">> \o mask
      ELSE IF pos_of_pling = 0 /\ pos_of_at # 0 THEN <<"*", "!">> \o mask
      ELSE IF pos_of_pling # 0 /\ pos_of_at = 0 THEN mask \o <<"@", "*">>
      ELSE mask

CleanMask(mask) ==
  LET pos_of_pling == FindFirstOf(mask, "!")
      pos_of_at == FindFirstOf(mask, "@")
      pos_of_dot == FindFirstOf(mask, ".")
      pos_of_colons == FindColons(mask)
  IN  IF Len(mask) >= 2 /\ mask[2] = ":" THEN mask
      ELSE IF pos_of_pling = 0 /\ pos_of_at = 0
        THEN IF pos_of_dot = 0 /\ pos_of_colons = 0 /\ FirstChar(mask) # ":"
               THEN mask \o <<"!", "*", "@", "*">>
               ELSE <<"*", "!", "*", "@">> \o mask
      ELSE IF pos_of_pling = 0 /\ pos_of_at # 0 THEN <<"*", "!">> \o mask
      ELSE IF pos_of_pling # 0 /\ pos_of_at = 0 THEN mask \o <<"@", "*">>
      ELSE mask

MaskChars == {"a", "!", "@", ".", ":", "*"}
Masks == StringsUpTo(MaskChars, MaxMaskLen)

(***************************************************************************)
(* Mode handlers: the objects handed to the registry                        *)
(***************************************************************************)
MODETYPE_USER == "MODETYPE_USER"
MODETYPE_CHANNEL == "MODETYPE_CHANNEL"
ModeTypes == {MODETYPE_USER, MODETYPE_CHANNEL}

\* ModeHandler::ModeHandler: a flag mode (MC_OTHER, PARAM_NONE)
SimpleMode(Name, modeletter, type, operonly) ==
  [name |-> Name, mode |-> modeletter, m_type |-> type, type_id |-> "MC_OTHER",
   parameters_taken |-> "PARAM_NONE", list |-> FALSE, prefix |-> NULL,
   prefixrank |-> 0, ranktoset |-> 20000, ranktounset |-> 20000,
   oper |-> operonly, selfremove |-> FALSE]

\* ParamModeBase: a channel mode that stores one parameter (MC_PARAM)
ParamMode(Name, modeletter, Params) ==
  [name |-> Name, mode |-> modeletter, m_type |-> MODETYPE_CHANNEL, type_id |-> "MC_PARAM",
   parameters_taken |-> Params, list |-> FALSE, prefix |-> NULL,
   prefixrank |-> 0, ranktoset |-> 20000, ranktounset |-> 20000,
   oper |-> FALSE, selfremove |-> FALSE]

\* ListModeBase: a channel mode that holds a list of masks (MC_LIST)
ListMode(Name, modeletter) ==
  [name |-> Name, mode |-> modeletter, m_type |-> MODETYPE_CHANNEL, type_id |-> "MC_LIST",
   parameters_taken |-> "PARAM_ALWAYS", list |-> TRUE, prefix |-> NULL,
   prefixrank |-> 0, ranktoset |-> 20000, ranktounset |-> 20000,
   oper |-> FALSE, selfremove |-> FALSE]

\* PrefixMode::PrefixMode and PrefixMode::Update
PrefixMode(Name, ModeLetter, Rank, PrefixChar, setrank, unsetrank, selfrm) ==
  [name |-> Name, mode |-> ModeLetter, m_type |-> MODETYPE_CHANNEL, type_id |-> "MC_PREFIX",
   parameters_taken |-> "PARAM_ALWAYS", list |-> TRUE, prefix |-> PrefixChar,
   prefixrank |-> Rank, ranktoset |-> setrank, ranktounset |-> unsetrank,
   oper |-> FALSE, selfremove |-> selfrm]

\* the handler objects of the model, by identity
Handler ==
  [h \in {"h_n", "h_k", "h_l", "h_o", "h_v", "h_b", "h_H",
          "h_n2", "h_q", "h_k2", "h_1", "h_c"} |->
     CASE h = "h_n" -> SimpleMode("noextmsg", "n", MODETYPE_CHANNEL, FALSE)
       [] h = "h_k" -> ParamMode("key", "k", "PARAM_ALWAYS")
       [] h = "h_l" -> ParamMode("limit", "l", "PARAM_SETONLY")
       [] h = "h_o" -> PrefixMode("op", "o", 30000, "@", 30000, 30000, TRUE)
       [] h = "h_v" -> PrefixMode("voice", "v", 10000, "+", 20000, 20000, TRUE)
       [] h = "h_b" -> ListMode("ban", "b")
       \* a user mode only opers may set
       [] h = "h_H" -> SimpleMode("hideoper", "H", MODETYPE_USER, TRUE)
       \* a second handler for channel letter n
       [] h = "h_n2" -> SimpleMode("noctcp", "n", MODETYPE_CHANNEL, FALSE)
       \* a second prefix mode for prefix character @
       [] h = "h_q" -> PrefixMode("founder", "q", 50000, "@", 50000, 50000, FALSE)
       \* a second handler named key
       [] h = "h_k2" -> ParamMode("key", "K", "PARAM_ALWAYS")
       \* a handler whose letter is no letter
       [] h = "h_1" -> SimpleMode("digit", "1", MODETYPE_CHANNEL, FALSE)
       \* a prefix mode whose prefix character is reserved
       [] h = "h_c" -> PrefixMode("comma", "s", 40000, ",", 40000, 40000, FALSE)]

Handlers == DOMAIN Handler
Names == {Handler[h].name : h \in Handlers}

\* ModeParser::IsModeChar
IsModeChar(chr) ==
  \/ (Code[chr] >= Code["A"] /\ Code[chr] <= Code["Z"])
  \/ (Code[chr] >= Code["a"] /\ Code[chr] <= Code["z"])

\* the letters of the model that index modehandlers[][letter - 65]
Letters == {c \in {Handler[h].mode : h \in Handlers} : IsModeChar(c)}
ModeIds == 0..(MODEID_MAX - 1)

IsPrefixMode(mh) == Handler[mh].type_id = "MC_PREFIX"
IsListMode(mh) == Handler[mh].list
IsParameterMode(mh) == Handler[mh].type_id = "MC_PARAM"
IsListModeBase(mh) == Handler[mh].type_id = "MC_LIST"
GetModeType(mh) == Handler[mh].m_type
GetModeChar(mh) == Handler[mh].mode
GetPrefix(mh) == Handler[mh].prefix
GetPrefixRank(mh) == Handler[mh].prefixrank
NeedsOper(mh) == Handler[mh].oper
GetLevelRequired(mh, adding) == IF adding THEN Handler[mh].ranktoset ELSE Handler[mh].ranktounset

\* ModeHandler::NeedsParam
NeedsParam(mh, adding) ==
  CASE Handler[mh].parameters_taken = "PARAM_ALWAYS" -> TRUE
    [] Handler[mh].parameters_taken = "PARAM_SETONLY" -> adding
    [] Handler[mh].parameters_taken = "PARAM_NONE" -> FALSE

\* ChannelManager::IsPrefix: the characters that begin a channel name
IsChanPrefix(c) == c = "#"

(***************************************************************************)
(* The registry of ModeParser                                               *)
(***************************************************************************)
VARIABLES
  modehandlers,        \* [type][letter]: the handler in the letter's slot, or NULL
  modehandlersbyname,  \* [type][name]: the handler of that name, or NULL
  modehandlersbyid,    \* [type][id]: the handler holding the id, or NULL
  mhlist,              \* [prefix, list]: the prefix and the list modes, in order added
  modeid,              \* [handler]: ModeHandler::modeid, MODEID_MAX when none
  lastop               \* the last registry call and what it returned

regvars == <<modehandlers, modehandlersbyname, modehandlersbyid, mhlist, modeid>>

\* ModeParser::ModeParser and ModeHandler::ModeHandler: empty tables, no id
EmptyRegistry ==
  [modehandlers |-> [t \in ModeTypes |-> [l \in Letters |-> NULL]],
   modehandlersbyname |-> [t \in ModeTypes |-> [n \in Names |-> NULL]],
   modehandlersbyid |-> [t \in ModeTypes |-> [i \in ModeIds |-> NULL]],
   mhlist |-> [prefix |-> <<>>, list |-> <<>>],
   modeid |-> [h \in Handlers |-> MODEID_MAX]]

Registry ==
  [modehandlers |-> modehandlers, modehandlersbyname |-> modehandlersbyname,
   modehandlersbyid |-> modehandlersbyid, mhlist |-> mhlist, modeid |-> modeid]

\* ModeParser::FindPrefix on registry R
FindPrefixNever(R, pfxletter) == NULL

FindPrefixIn(R, pfxletter) ==
  LET hits == {i \in 1..Len(R.mhlist.prefix) : GetPrefix(R.mhlist.prefix[i]) = pfxletter}
  IN  IF hits = {} THEN NULL
      ELSE R.mhlist.prefix[CHOOSE i \in hits : \A j \in hits : i <= j]

\* ModeParser::AllocateModeId on registry R: the lowest free id, MODEID_MAX when it throws
AllocateModeIdIn(R, mt) ==
  LET free == {i \in ModeIds : R.modehandlersbyid[mt][i] = NULL}
  IN  IF free = {} THEN MODEID_MAX ELSE CHOOSE i \in free : \A j \in free : i <= j

\* whether AddMode asks for an id for mh
TakesId(mh) == GetModeType(mh) = MODETYPE_USER \/ IsParameterMode(mh) \/ ~IsListMode(mh)

\* ModeParser::AddMode: the exception it throws, or "ok"
AddModeOutcome(R, mh) ==
  IF ~IsModeChar(GetModeChar(mh)) THEN "letter invalid"
  ELSE IF IsPrefixMode(mh) /\ (\/ Code[GetPrefix(mh)] > 126
                               \/ GetPrefix(mh) = ","
                               \/ GetPrefix(mh) = ":"
                               \/ IsChanPrefix(GetPrefix(mh)))
    THEN "prefix invalid"
  ELSE IF IsPrefixMode(mh) /\ FindPrefixIn(R, GetPrefix(mh)) # NULL THEN "prefix used"
  ELSE IF R.modehandlers[GetModeType(mh)][GetModeChar(mh)] # NULL THEN "letter used"
  ELSE IF TakesId(mh) /\ AllocateModeIdIn(R, GetModeType(mh)) = MODEID_MAX THEN "out of ids"
  ELSE IF R.modehandlersbyname[GetModeType(mh)][Handler[mh].name] # NULL THEN "name used"
  ELSE "ok"

\* ModeParser::AddMode: the registry after a call that did not throw
AddModeApply(R, mh) ==
  LET mt == GetModeType(mh)
      id == IF TakesId(mh) THEN AllocateModeIdIn(R, mt) ELSE MODEID_MAX
  IN  [modehandlers |-> [R.modehandlers EXCEPT ![mt][GetModeChar(mh)] = mh],
       modehandlersbyname |-> [R.modehandlersbyname EXCEPT ![mt][Handler[mh].name] = mh],
       modehandlersbyid |->
         IF id # MODEID_MAX THEN [R.modehandlersbyid EXCEPT ![mt][id] = mh]
         ELSE R.modehandlersbyid,
       mhlist |->
         IF IsPrefixMode(mh) THEN [R.mhlist EXCEPT !.prefix = Append(@, mh)]
         ELSE IF IsListModeBase(mh) THEN [R.mhlist EXCEPT !.list = Append(@, mh)]
         ELSE R.mhlist,
       modeid |-> IF id # MODEID_MAX THEN [R.modeid EXCEPT ![mh] = id] ELSE R.modeid]

\* the id is stored in the handler before the name map is asked
AddModeInIdFirst(R, mh) ==
  IF AddModeOutcome(R, mh) = "ok" THEN AddModeApply(R, mh)
  ELSE IF AddModeOutcome(R, mh) = "name used" /\ TakesId(mh)
    THEN [R EXCEPT !.modeid[mh] = AllocateModeIdIn(R, GetModeType(mh))]
  ELSE R

\* ModeParser::AddMode on registry R
AddModeIn(R, mh) == IF AddModeOutcome(R, mh) = "ok" THEN AddModeApply(R, mh) ELSE R

\* ModeParser::FindMode(modeletter, mt)
FindMode(modeletter, mt) ==
  IF ~IsModeChar(modeletter) THEN NULL ELSE modehandlers[mt][modeletter]

\* ModeParser::FindMode(modename, mt)
FindModeByName(modename, mt) == modehandlersbyname[mt][modename]

\* ModeParser::FindPrefixMode
FindPrefixMode(modeletter) ==
  LET mh == FindMode(modeletter, MODETYPE_CHANNEL)
  IN  IF mh = NULL THEN NULL ELSE IF IsPrefixMode(mh) THEN mh ELSE NULL

\* ModeParser::FindPrefix
FindPrefix(pfxletter) == FindPrefixIn(Registry, pfxletter)

\* ModeParser::GetPrefixModes
GetPrefixModes == mhlist.prefix

(***************************************************************************)
(* Users, channels and the mode state they hold                             *)
(***************************************************************************)
\* the User objects: x and y are local clients, srv is ServerInstance->FakeClient
User ==
  [u \in {"x", "y", "srv"} |->
     CASE u = "x" -> [nick |-> <<"x">>, uuid |-> <<"1", "x">>, local |-> TRUE,
                      oper |-> FALSE, modeperm |-> FALSE]
       [] u = "y" -> [nick |-> <<"y">>, uuid |-> <<"1", "y">>, local |-> TRUE,
                      oper |-> TRUE, modeperm |-> TRUE]
       [] u = "srv" -> [nick |-> <<"s">>, uuid |-> <<"1">>, local |-> FALSE,
                        oper |-> FALSE, modeperm |-> FALSE]]

FakeClient == "srv"
IS_LOCAL(user) == User[user].local

VARIABLES
  users,        \* UserManager::GetUsers: the users on the network
  chans,        \* ChannelManager::GetChans: the channels that exist
  usermodes,    \* [user]: User::modes, the set of mode ids that are set
  chanmodes,    \* [channel]: Channel::modes, the set of mode ids that are set
  chanparams,   \* [channel][handler]: the parameter a parameter mode stores
  chanlists,    \* [channel][handler]: the entries of a list mode
  memberships,  \* [channel][member]: Membership::modes, the prefix letters held
  MaxModes,     \* ServerInstance->Config->Limits.MaxModes
  modewatchermap \* the registered ModeWatchers, in the order they were added

worldvars == <<users, chans, usermodes, chanmodes, chanparams, chanlists, memberships>>

\* the mode state as one value, handed through the mode processor
World ==
  [usermodes |-> usermodes, chanmodes |-> chanmodes, chanparams |-> chanparams,
   chanlists |-> chanlists, memberships |-> memberships]

\* ModeHandler::GetId
GetId(mh) == modeid[mh]

\* Channel::IsModeSet(ModeHandler*)
ChanIsModeSet(W, chan, mh) == GetId(mh) # MODEID_MAX /\ GetId(mh) \in W.chanmodes[chan]

\* Channel::GetModeParameter
GetModeParameter(W, chan, mh) ==
  IF IsParameterMode(mh) /\ ChanIsModeSet(W, chan, mh) THEN W.chanparams[chan][mh] ELSE <<>>

\* Channel::SetMode
ChanSetMode(W, chan, mh, value) ==
  IF GetId(mh) = MODEID_MAX THEN W
  ELSE [W EXCEPT !.chanmodes[chan] = IF value THEN @ \cup {GetId(mh)} ELSE @ \ {GetId(mh)}]

\* User::IsModeSet(ModeHandler*)
UserIsModeSet(W, user, mh) == GetId(mh) # MODEID_MAX /\ GetId(mh) \in W.usermodes[user]

\* User::IsModeSet(char)
UserIsModeSetChar(W, user, modeletter) ==
  LET mh == FindMode(modeletter, MODETYPE_USER)
  IN  mh # NULL /\ UserIsModeSet(W, user, mh)

\* User::SetMode
UserSetMode(W, user, mh, value) ==
  IF GetId(mh) = MODEID_MAX THEN W
  ELSE [W EXCEPT !.usermodes[user] = IF value THEN @ \cup {GetId(mh)} ELSE @ \ {GetId(mh)}]

\* Channel::GetUser: whether the user has a Membership on the channel
IsMember(W, chan, user) == user \in DOMAIN W.memberships[chan]

\* Membership::HasMode
HasMode(W, chan, user, mh) == GetModeChar(mh) \in W.memberships[chan][user]

\* Membership::SetPrefix: the letters held afterwards
SetPrefix(W, chan, user, mh, adding) ==
  [W EXCEPT !.memberships[chan][user] =
     IF adding THEN @ \cup {GetModeChar(mh)} ELSE @ \ {GetModeChar(mh)}]

\* Membership::SetPrefix: true when the letters held change
SetPrefixChanges(W, chan, user, mh, adding) == HasMode(W, chan, user, mh) # adding

\* Channel::GetPrefixValue: the rank of the highest prefix mode the user holds
GetPrefixValue(W, chan, user) ==
  IF ~IsMember(W, chan, user) THEN 0
  ELSE LET ranks == {GetPrefixRank(FindPrefixMode(l)) :
                       l \in {m \in W.memberships[chan][user] : FindPrefixMode(m) # NULL}}
       IN  IF ranks = {} THEN 0 ELSE CHOOSE r \in ranks : \A q \in ranks : q <= r

\* UserManager::FindNick
FindNick(nick) ==
  IF \E u \in users : User[u].nick = nick THEN CHOOSE u \in users : User[u].nick = nick
  ELSE NULL

\* UserManager::Find: by UUID when the string begins with a digit, else by nick
FindUser(str) ==
  IF Len(str) > 0 /\ str[1] = "1"
    THEN IF \E u \in users : User[u].uuid = str
           THEN CHOOSE u \in users : User[u].uuid = str ELSE NULL
    ELSE FindNick(str)

\* User::HasModePermission
HasModePermission(user, mh) == User[user].modeperm

(***************************************************************************)
(* Mode handlers' OnModeChange and AccessCheck                              *)
(***************************************************************************)
MODEACTION_ALLOW == "MODEACTION_ALLOW"
MODEACTION_DENY == "MODEACTION_DENY"
MOD_RES_PASSTHRU == "MOD_RES_PASSTHRU"
MOD_RES_ALLOW == "MOD_RES_ALLOW"
MOD_RES_DENY == "MOD_RES_DENY"

\* a Modes::Change
Change(mh, adding, param) == [mh |-> mh, adding |-> adding, param |-> param]

\* what a handler's OnModeChange hands back: the action, the state, the parameter
Outcome(ma, W, param, numerics) == [ma |-> ma, W |-> W, param |-> param, numerics |-> numerics]

\* SimpleUserMode::OnModeChange
SimpleUserModeOnModeChange(W, dest, change) ==
  IF UserIsModeSet(W, dest, change.mh) = change.adding
    THEN Outcome(MODEACTION_DENY, W, change.param, <<>>)
    ELSE Outcome(MODEACTION_ALLOW, UserSetMode(W, dest, change.mh, change.adding),
                 change.param, <<>>)

\* SimpleChannelMode::OnModeChange
SimpleChannelModeAlwaysAllows(W, channel, change) ==
  Outcome(MODEACTION_ALLOW, ChanSetMode(W, channel, change.mh, change.adding),
          change.param, <<>>)

SimpleChannelModeOnModeChange(W, channel, change) ==
  IF ChanIsModeSet(W, channel, change.mh) = change.adding
    THEN Outcome(MODEACTION_DENY, W, change.param, <<>>)
    ELSE Outcome(MODEACTION_ALLOW, ChanSetMode(W, channel, change.mh, change.adding),
                 change.param, <<>>)

\* PrefixMode::AccessCheck
PrefixModeAccessCheckNoSelf(src, change) == MOD_RES_PASSTHRU

\* whoever the parameter names
PrefixModeAccessCheckAnyNick(src, change) ==
  IF ~change.adding /\ Handler[change.mh].selfremove THEN MOD_RES_ALLOW ELSE MOD_RES_PASSTHRU

PrefixModeAccessCheck(src, change) ==
  IF ~change.adding /\ User[src].nick = change.param /\ Handler[change.mh].selfremove
    THEN MOD_RES_ALLOW
    ELSE MOD_RES_PASSTHRU

\* ModeHandler::AccessCheck, overridden by PrefixMode
AccessCheck(src, change) ==
  IF IsPrefixMode(change.mh) THEN PrefixModeAccessCheck(src, change) ELSE MOD_RES_PASSTHRU

\* PrefixMode::OnModeChange
PrefixModeOnModeChange(W, source, chan, change) ==
  LET target == IF IS_LOCAL(source) THEN FindNick(change.param) ELSE FindUser(change.param)
  IN  IF target = NULL
        THEN Outcome(MODEACTION_DENY, W, change.param, <<"ERR_NOSUCHNICK">>)
      ELSE IF ~IsMember(W, chan, target)
        THEN Outcome(MODEACTION_DENY, W, change.param, <<>>)
      ELSE IF SetPrefixChanges(W, chan, target, change.mh, change.adding)
        THEN Outcome(MODEACTION_ALLOW, SetPrefix(W, chan, target, change.mh, change.adding),
                     User[target].nick, <<>>)
      ELSE Outcome(MODEACTION_DENY, W, User[target].nick, <<>>)

\* ParamMode::OnSet and ParamMode::GetParameter: the parameter is stored as given
OnSet(W, chan, mh, param) == [W EXCEPT !.chanparams[chan][mh] = param]

\* ParamMode::OnUnsetInternal: the stored parameter is dropped
OnUnsetInternal(W, chan, mh) == [W EXCEPT !.chanparams[chan][mh] = <<>>]

\* ParamModeBase::OnModeChange
ParamModeBaseKeepsParam(W, chan, change) ==
  IF change.adding
    THEN IF ChanIsModeSet(W, chan, change.mh)
           THEN Outcome(MODEACTION_DENY, W, change.param, <<>>)
           ELSE LET W1 == ChanSetMode(OnSet(W, chan, change.mh, change.param),
                                      chan, change.mh, TRUE)
                IN  Outcome(MODEACTION_ALLOW, W1, W1.chanparams[chan][change.mh], <<>>)
    ELSE IF ~ChanIsModeSet(W, chan, change.mh)
           THEN Outcome(MODEACTION_DENY, W, change.param, <<>>)
           ELSE Outcome(MODEACTION_ALLOW, ChanSetMode(W, chan, change.mh, FALSE),
                        change.param, <<>>)

ParamModeBaseOnModeChange(W, chan, change) ==
  IF change.adding
    THEN IF GetModeParameter(W, chan, change.mh) = change.param
           THEN Outcome(MODEACTION_DENY, W, change.param, <<>>)
           ELSE LET W1 == ChanSetMode(OnSet(W, chan, change.mh, change.param),
                                      chan, change.mh, TRUE)
                IN  Outcome(MODEACTION_ALLOW, W1, W1.chanparams[chan][change.mh], <<>>)
    ELSE IF ~ChanIsModeSet(W, chan, change.mh)
           THEN Outcome(MODEACTION_DENY, W, change.param, <<>>)
           ELSE Outcome(MODEACTION_ALLOW,
                        ChanSetMode(OnUnsetInternal(W, chan, change.mh), chan, change.mh, FALSE),
                        change.param, <<>>)

\* the position of mask in a list mode's entries, 0 when it is not there
ListIndex(list, mask) ==
  IF \E i \in 1..Len(list) : list[i] = mask
    THEN CHOOSE i \in 1..Len(list) : list[i] = mask ELSE 0

\* ListModeBase::OnModeChange: append the mask, or remove it
ListModeBaseOnModeChange(W, chan, change) ==
  LET list == W.chanlists[chan][change.mh]
      at == ListIndex(list, change.param)
  IN  IF change.adding
        THEN IF at # 0 THEN Outcome(MODEACTION_DENY, W, change.param, <<>>)
             ELSE Outcome(MODEACTION_ALLOW,
                          [W EXCEPT !.chanlists[chan][change.mh] = Append(@, change.param)],
                          change.param, <<>>)
        ELSE IF at = 0 THEN Outcome(MODEACTION_DENY, W, change.param, <<>>)
             ELSE Outcome(MODEACTION_ALLOW,
                          [W EXCEPT !.chanlists[chan][change.mh] =
                             SubSeq(list, 1, at - 1) \o SubSeq(list, at + 1, Len(list))],
                          change.param, <<>>)

\* mh->OnModeChange: the virtual call, by the handler's class
OnModeChange(W, source, dest, chan, change) ==
  CASE Handler[change.mh].type_id = "MC_PREFIX" -> PrefixModeOnModeChange(W, source, chan, change)
    [] Handler[change.mh].type_id = "MC_PARAM" -> ParamModeBaseOnModeChange(W, chan, change)
    [] Handler[change.mh].type_id = "MC_LIST" -> ListModeBaseOnModeChange(W, chan, change)
    [] OTHER -> IF GetModeType(change.mh) = MODETYPE_USER
                  THEN SimpleUserModeOnModeChange(W, dest, change)
                  ELSE SimpleChannelModeOnModeChange(W, chan, change)

\* ModeHandler::ResolveModeConflict
ResolveModeConflictOursLess(theirs, ours) == StrLess(ours, theirs)

ResolveModeConflict(theirs, ours) == StrLess(theirs, ours)

(***************************************************************************)
(* Mode watchers                                                            *)
(***************************************************************************)
\* the ModeWatcher objects: w_pass and w_ban keep ModeWatcher::BeforeMode, w_veto
\* and w_veto2 refuse a change that adds the mode, as BanRedirect::BeforeMode can;
\* w_user watches the user mode of the name ban
Watcher ==
  [w \in {"w_pass", "w_veto", "w_ban", "w_veto2", "w_user"} |->
     CASE w = "w_pass" -> [mode |-> "noextmsg", m_type |-> MODETYPE_CHANNEL, veto |-> FALSE]
       [] w = "w_veto" -> [mode |-> "ban", m_type |-> MODETYPE_CHANNEL, veto |-> TRUE]
       [] w = "w_ban" -> [mode |-> "ban", m_type |-> MODETYPE_CHANNEL, veto |-> FALSE]
       [] w = "w_veto2" -> [mode |-> "ban", m_type |-> MODETYPE_CHANNEL, veto |-> TRUE]
       [] w = "w_user" -> [mode |-> "ban", m_type |-> MODETYPE_USER, veto |-> TRUE]]

Watchers == DOMAIN Watcher

\* ModeWatcher::BeforeMode
BeforeMode(mw, change) == ~(Watcher[mw].veto /\ change.adding)

\* insp::equal_range(modewatchermap, name): the watchers of that name, in order
RECURSIVE WatchersOf(_, _)
WatchersOf(map, name) ==
  IF map = <<>> THEN <<>>
  ELSE IF Watcher[Head(map)].mode = name THEN <<Head(map)>> \o WatchersOf(Tail(map), name)
  ELSE WatchersOf(Tail(map), name)

(***************************************************************************)
(* ModeParser::TryMode                                                      *)
(***************************************************************************)
\* FIRST_MOD_RESULT(OnRawMode, ...): hook names one handler and the result the
\* modules give for its changes; every other change passes through
OnRawMode(hook, change) == IF hook.mh = change.mh THEN hook.res ELSE MOD_RES_PASSTHRU

\* the watchers TryMode asks about a change, in the order it asks them
WatchersFor(change, type) ==
  SelectSeq(WatchersOf(modewatchermap, Handler[change.mh].name),
            LAMBDA mw : Watcher[mw].m_type = type)

\* the BeforeMode loop going on after a watcher refused
BeforeModeLoopAsksAll(change, type) ==
  [asked |-> WatchersFor(change, type),
   refused |-> \E i \in 1..Len(WatchersFor(change, type)) :
                  ~BeforeMode(WatchersFor(change, type)[i], change)]

\* the BeforeMode loop: the watchers asked, and whether one refused
BeforeModeLoop(change, type) ==
  LET ws == WatchersFor(change, type)
      refusing == {i \in 1..Len(ws) : ~BeforeMode(ws[i], change)}
      first == IF refusing = {} THEN 0 ELSE CHOOSE i \in refusing : \A j \in refusing : i <= j
  IN  [asked |-> IF first = 0 THEN ws ELSE SubSeq(ws, 1, first), refused |-> first # 0]

\* the rank check of TryMode: true when the user's rank is too low
RankTooLowNever(ourrank, neededrank) == FALSE

RankTooLow(ourrank, neededrank) == ourrank < neededrank

\* what TryMode did with a Change: ma is its return value, W the state after it,
\* param the Change's parameter after it, stage the return statement taken
Tried(ma, W, param, numerics, stage, facts) ==
  [ma |-> ma, W |-> W, param |-> param, numerics |-> numerics, stage |-> stage,
   ran |-> stage \in {"handler", "param", "allow"},
   raw |-> facts.raw, access |-> facts.access, ourrank |-> facts.ourrank,
   neededrank |-> facts.neededrank, before |-> facts.before,
   after |-> IF stage = "allow" THEN facts.after ELSE <<>>]

\* TryMode from the handler's answer on: out is what OnModeChange handed back
TryModeHandled(out, needs_param, watched) ==
  IF needs_param /\ out.param = <<>>
    THEN Tried(MODEACTION_DENY, out.W, out.param, out.numerics, "param", watched)
  ELSE IF out.ma # MODEACTION_ALLOW
    THEN Tried(out.ma, out.W, out.param, out.numerics, "handler", watched)
  ELSE Tried(MODEACTION_ALLOW, out.W, out.param, out.numerics, "allow", watched)

\* TryMode from the watchers' answer on: the oper-only check and the handler
TryModeWatched(W, user, targetuser, chan, item, needs_param, watch, watched) ==
  IF watch.refused
    THEN Tried(MODEACTION_DENY, W, item.param, <<>>, "watcher", watched)
  ELSE IF watch.asked # <<>> /\ needs_param /\ item.param = <<>>
    THEN Tried(MODEACTION_DENY, W, item.param, <<>>, "watcher", watched)
  ELSE IF /\ (chan # NULL \/ item.adding)
          /\ IS_LOCAL(user) /\ NeedsOper(item.mh) /\ ~HasModePermission(user, item.mh)
    THEN Tried(MODEACTION_DENY, W, item.param, <<"ERR_NOPRIVILEGES">>, "oper", watched)
  ELSE TryModeHandled(OnModeChange(W, user, targetuser, chan, item), needs_param, watched)

\* TryMode from the answer of AccessCheck on: the rank check, then the watchers
TryModeChecked(W, user, targetuser, chan, item, type, checked, watch, facts) ==
  IF checked /\ facts.access = MOD_RES_DENY
    THEN Tried(MODEACTION_DENY, W, item.param, <<>>, "access", facts)
  ELSE IF /\ checked /\ facts.access = MOD_RES_PASSTHRU
          /\ RankTooLow(facts.ourrank, facts.neededrank)
    THEN Tried(MODEACTION_DENY, W, item.param, <<"ERR_CHANOPRIVSNEEDED">>, "rank", facts)
  ELSE TryModeWatched(W, user, targetuser, chan, item, NeedsParam(item.mh, item.adding), watch,
                      [facts EXCEPT !.before = watch.asked, !.after = WatchersFor(item, type)])

\* TryMode from the ACL block on: checked is whether the block is entered
TryModeAsked(W, user, targetuser, chan, item, type, raw, checked) ==
  TryModeChecked(
    W, user, targetuser, chan, item, type, checked, BeforeModeLoop(item, type),
    [raw |-> raw,
     access |-> IF checked THEN AccessCheck(user, item) ELSE "not asked",
     ourrank |-> IF chan # NULL THEN GetPrefixValue(W, chan, user) ELSE 0,
     neededrank |-> GetLevelRequired(item.mh, item.adding),
     before |-> <<>>, after |-> <<>>])

\* TryMode from the answer of the OnRawMode hooks on
TryModeRaw(W, user, targetuser, chan, item, type, SkipACL, raw) ==
  TryModeAsked(W, user, targetuser, chan, item, type, raw,
               chan # NULL /\ ~SkipACL /\ raw # MOD_RES_ALLOW)

\* TryMode once the parameter is cropped: a local user's change that a hook denies
\* ends here
TryModeCropped(W, user, targetuser, chan, item, type, SkipACL, raw) ==
  IF IS_LOCAL(user) /\ raw = MOD_RES_DENY
    THEN Tried(MODEACTION_DENY, W, item.param, <<>>, "rawmode",
               [raw |-> raw, access |-> "not asked",
                ourrank |-> IF chan # NULL THEN GetPrefixValue(W, chan, user) ELSE 0,
                neededrank |-> GetLevelRequired(item.mh, item.adding),
                before |-> <<>>, after |-> <<>>])
    ELSE TryModeRaw(W, user, targetuser, chan, item, type, SkipACL, raw)

\* TryMode's crop of the parameter to MODE_PARAM_MAX characters
Cropped(mcitem) ==
  Change(mcitem.mh, mcitem.adding,
         IF Len(mcitem.param) > MODE_PARAM_MAX /\ mcitem.adding
           THEN SubSeq(mcitem.param, 1, MODE_PARAM_MAX) ELSE mcitem.param)

\* TryMode once the hooks are asked about the cropped Change
TryModeItem(W, user, targetuser, chan, item, SkipACL, hook) ==
  TryModeCropped(W, user, targetuser, chan, item,
                 IF chan # NULL THEN MODETYPE_CHANNEL ELSE MODETYPE_USER,
                 SkipACL, OnRawMode(hook, item))

TryMode(W, user, targetuser, chan, mcitem, SkipACL, hook) ==
  TryModeItem(W, user, targetuser, chan, Cropped(mcitem), SkipACL, hook)

(***************************************************************************)
(* ModeParser::ProcessSingle and ModeParser::Process                        *)
(***************************************************************************)
MODE_MERGE == "MODE_MERGE"
MODE_CHECKACCESS == "MODE_CHECKACCESS"
MODE_LOCALONLY == "MODE_LOCALONLY"

\* IsModeParamValid: "ok", or the feedback the handler gives
IsModeParamValid(item) ==
  IF item.param = <<>> THEN "missing"
  ELSE IF item.param[1] = ":" \/ FindFirstOf(item.param, " ") # 0 THEN "invalid"
  ELSE "ok"

ShouldApplyMergedModeAlways(W, chan, item) == TRUE

\* ShouldApplyMergedMode
ShouldApplyMergedMode(W, chan, item) ==
  IF chan = NULL \/ ~ChanIsModeSet(W, chan, item.mh) \/ IsListMode(item.mh) THEN TRUE
  ELSE ResolveModeConflict(item.param, GetModeParameter(W, chan, item.mh))

\* one line of the record of a pass: what became of one Change
Entry(item, t, W0, chan) ==
  LET onchan == chan # NULL /\ item.mh # NULL
  IN  [change |-> item, ma |-> t.ma, stage |-> t.stage, param |-> t.param,
       numerics |-> t.numerics, ran |-> t.ran, raw |-> t.raw, access |-> t.access,
       ourrank |-> t.ourrank, neededrank |-> t.neededrank,
       before |-> t.before, after |-> t.after,
       wasset |-> onchan /\ ChanIsModeSet(W0, chan, item.mh),
       wasparam |-> IF onchan THEN GetModeParameter(W0, chan, item.mh) ELSE <<>>,
       isset |-> onchan /\ ChanIsModeSet(t.W, chan, item.mh),
       isparam |-> IF onchan THEN GetModeParameter(t.W, chan, item.mh) ELSE <<>>]

\* a Change that ProcessSingle skipped before TryMode
Skipped(item, W, stage, numerics) ==
  [ma |-> MODEACTION_DENY, W |-> W, param |-> item.param, numerics |-> numerics,
   stage |-> stage, ran |-> FALSE, raw |-> "not asked", access |-> "not asked",
   ourrank |-> 0, neededrank |-> 0, before |-> <<>>, after |-> <<>>]

\* the cap of ProcessSingle: true when the mode sequence is getting too long
CapReachedNever(size, cap) == FALSE

CapReachedLate(size, cap) == size > cap

CapReached(size, cap) == size >= cap

\* what ProcessSingle does with list[i]: skip it, or hand it to TryMode
TryOrSkip(W, user, chan, targetuser, item, flags, hook) ==
  IF item.mh = NULL THEN Skipped(item, W, "no handler", <<>>)
  ELSE IF NeedsParam(item.mh, item.adding) /\ IsModeParamValid(item) # "ok"
    THEN Skipped(item, W, IsModeParamValid(item), <<"ERR_INVALIDMODEPARAM">>)
  ELSE IF /\ NeedsParam(item.mh, item.adding)
          /\ MODE_MERGE \in flags
          /\ ~ShouldApplyMergedMode(W, chan, item)
    THEN Skipped(item, W, "merge", <<>>)
  ELSE TryMode(W, user, targetuser, chan, item, MODE_CHECKACCESS \notin flags, hook)

\* the loop's variables after list[i], of which t is what became: the state,
\* LastChangeList, modes_processed, the record of the pass, and whether the loop
\* breaks here
Pushed(acc, item, t, chan) ==
  [W |-> t.W,
   last |-> IF t.ma = MODEACTION_ALLOW
              THEN Append(acc.last, Change(item.mh, item.adding, t.param))
              ELSE acc.last,
   n |-> acc.n + 1,
   log |-> Append(acc.log, Entry(item, t, acc.W, chan)),
   full |-> t.ma = MODEACTION_ALLOW /\ CapReached(Len(acc.last) + 1, MaxModes)]

\* the loop of ProcessSingle from list[i] on
RECURSIVE ProcessSingleLoop(_, _, _, _, _, _, _, _)
RECURSIVE ProcessSingleBreak(_, _, _, _, _, _, _, _)
ProcessSingleBreak(acc, user, chan, targetuser, list, flags, hook, i) ==
  IF acc.full THEN acc
  ELSE ProcessSingleLoop(acc, user, chan, targetuser, list, flags, hook, i + 1)

ProcessSingleLoop(acc, user, chan, targetuser, list, flags, hook, i) ==
  IF i > Len(list) THEN acc
  ELSE ProcessSingleBreak(
         Pushed(acc, list[i],
                TryOrSkip(acc.W, user, chan, targetuser, list[i], flags, hook), chan),
         user, chan, targetuser, list, flags, hook, i)

\* what ProcessSingle leaves: the state, LastChangeList, the number of Changes gone
\* over, the record of the pass, and the MODE event if one is made
PassResult(r) ==
  [W |-> r.W, last |-> r.last, n |-> r.n, log |-> r.log,
   events |-> IF r.last # <<>> THEN <<r.last>> ELSE <<>>]

\* ModeParser::ProcessSingle that starts every pass at the head of the list
ProcessSingleFromHead(W, user, chan, targetuser, list, flags, hook, beginindex) ==
  PassResult(ProcessSingleLoop([W |-> W, last |-> <<>>, n |-> 0, log |-> <<>>, full |-> FALSE],
                               user, chan, targetuser, list, flags, hook, 1))
\* ModeParser::ProcessSingle
ProcessSingle(W, user, chan, targetuser, list, flags, hook, beginindex) ==
  PassResult(ProcessSingleLoop([W |-> W, last |-> <<>>, n |-> 0, log |-> <<>>, full |-> FALSE],
                               user, chan, targetuser, list, flags, hook, beginindex + 1))

\* a pass's result added to what the passes before left: the state, the last
\* LastChangeList, the events so far
Gathered(acc, r) == [W |-> r.W, last |-> r.last, events |-> acc.events \o r.events]

\* ModeParser::Process: ProcessSingle until the whole list is gone over
RECURSIVE ProcessFrom(_, _, _, _, _, _, _, _)
RECURSIVE ProcessWhile(_, _, _, _, _, _, _, _, _)
ProcessWhile(acc, r, user, chan, targetuser, list, flags, hook, processed) ==
  IF processed + r.n < Len(list)
    THEN ProcessFrom(Gathered(acc, r), user, chan, targetuser, list, flags, hook,
                     processed + r.n)
    ELSE Gathered(acc, r)

ProcessFrom(acc, user, chan, targetuser, list, flags, hook, processed) ==
  ProcessWhile(acc, ProcessSingle(acc.W, user, chan, targetuser, list, flags, hook, processed),
               user, chan, targetuser, list, flags, hook, processed)

ProcessOnePass(W, user, chan, targetuser, list, flags, hook) ==
  Gathered([W |-> W, last |-> <<>>, events |-> <<>>],
           ProcessSingle(W, user, chan, targetuser, list, flags, hook, 0))

Process(W, user, chan, targetuser, list, flags, hook) ==
  ProcessFrom([W |-> W, last |-> <<>>, events |-> <<>>],
              user, chan, targetuser, list, flags, hook, 0)

\* no module answers OnRawMode
NoHook == [mh |-> NULL, res |-> MOD_RES_PASSTHRU]

(***************************************************************************)
(* ModeHandler::RemoveMode and ModeParser::DelMode                          *)
(***************************************************************************)
\* the order in which the user hash and the channel hash are walked
UserOrder == SelectSeq(<<"x", "y">>, LAMBDA u : u \in users)
ChanOrder == SelectSeq(<<"#a", "#b">>, LAMBDA c : c \in chans)

\* Modes::ChangeList::push_remove
PushRemove(mh, param) == Change(mh, FALSE, param)

\* ModeHandler::RemoveMode(User*): remove the mode if it is set on the user
RemoveModeUser(acc, mh, user) ==
  IF UserIsModeSetChar(acc.W, user, GetModeChar(mh))
    THEN Gathered(acc, Process(acc.W, FakeClient, NULL, user, <<PushRemove(mh, <<>>)>>,
                               {MODE_LOCALONLY}, NoHook))
    ELSE acc

\* ModeHandler::RemoveMode(Channel*, ChangeList&)
ModeHandlerRemoveMode(W, mh, channel) ==
  IF ChanIsModeSet(W, channel, mh)
    THEN IF NeedsParam(mh, FALSE)
           THEN <<PushRemove(mh, GetModeParameter(W, channel, mh))>>
           ELSE <<PushRemove(mh, <<>>)>>
    ELSE <<>>

\* PrefixMode::RemoveMode: one removal for every member that holds the prefix
RECURSIVE PrefixModeRemoveMode(_, _, _, _)
PrefixModeRemoveMode(W, mh, chan, order) ==
  IF order = <<>> THEN <<>>
  ELSE (IF IsMember(W, chan, Head(order)) /\ HasMode(W, chan, Head(order), mh)
          THEN <<PushRemove(mh, User[Head(order)].nick)>> ELSE <<>>)
       \o PrefixModeRemoveMode(W, mh, chan, Tail(order))

\* ListModeBase::RemoveMode: one removal for every entry of the list
ListModeBaseRemoveMode(W, mh, chan) ==
  [i \in 1..Len(W.chanlists[chan][mh]) |-> PushRemove(mh, W.chanlists[chan][mh][i])]

\* mh->RemoveMode(chan, changelist): the virtual call
RemoveModeChan(W, mh, chan) ==
  CASE IsPrefixMode(mh) -> PrefixModeRemoveMode(W, mh, chan, UserOrder)
    [] IsListModeBase(mh) -> ListModeBaseRemoveMode(W, mh, chan)
    [] OTHER -> ModeHandlerRemoveMode(W, mh, chan)

\* the MODETYPE_USER loop of DelMode
RECURSIVE DelModeUsers(_, _, _)
DelModeUsers(acc, mh, order) ==
  IF order = <<>> THEN acc
  ELSE DelModeUsers(RemoveModeUser(acc, mh, Head(order)), mh, Tail(order))

\* the MODETYPE_CHANNEL loop of DelMode, stopping after the first channel
DelModeFirstChan(acc, mh, order) ==
  IF order = <<>> THEN acc
  ELSE Gathered(acc, Process(acc.W, FakeClient, Head(order), NULL,
                             RemoveModeChan(acc.W, mh, Head(order)), {MODE_LOCALONLY}, NoHook))

\* the MODETYPE_CHANNEL loop of DelMode
RECURSIVE DelModeChans(_, _, _)
DelModeChans(acc, mh, order) ==
  IF order = <<>> THEN acc
  ELSE DelModeChans(
         Gathered(acc, Process(acc.W, FakeClient, Head(order), NULL,
                               RemoveModeChan(acc.W, mh, Head(order)), {MODE_LOCALONLY}, NoHook)),
         mh, Tail(order))

\* ModeParser::DelMode: whether the handler is the registered one
DelModeFinds(mh) ==
  /\ IsModeChar(GetModeChar(mh))
  /\ modehandlersbyname[GetModeType(mh)][Handler[mh].name] = mh
  /\ modehandlers[GetModeType(mh)][GetModeChar(mh)] = mh

\* ModeParser::DelMode: the mode state after the handler's mode is removed everywhere
DelModeRemoves(W, last, mh) ==
  LET acc == [W |-> W, last |-> last, events |-> <<>>]
  IN  IF GetModeType(mh) = MODETYPE_USER THEN DelModeUsers(acc, mh, UserOrder)
      ELSE DelModeChans(acc, mh, ChanOrder)

WithoutFirst(seq, mh) == Tail(seq)

\* removing one handler from a vector of handlers
Without(seq, mh) == SelectSeq(seq, LAMBDA h : h # mh)

\* ModeParser::DelMode: the registry after the handler is taken out
DelModeKeepsId(R, mh) ==
  LET mt == GetModeType(mh)
  IN  [modehandlers |-> [R.modehandlers EXCEPT ![mt][GetModeChar(mh)] = NULL],
       modehandlersbyname |-> [R.modehandlersbyname EXCEPT ![mt][Handler[mh].name] = NULL],
       modehandlersbyid |-> R.modehandlersbyid,
       mhlist |-> R.mhlist,
       modeid |-> R.modeid]

DelModeErase(R, mh) ==
  LET mt == GetModeType(mh)
  IN  [modehandlers |-> [R.modehandlers EXCEPT ![mt][GetModeChar(mh)] = NULL],
       modehandlersbyname |-> [R.modehandlersbyname EXCEPT ![mt][Handler[mh].name] = NULL],
       modehandlersbyid |->
         IF R.modeid[mh] # MODEID_MAX
           THEN [R.modehandlersbyid EXCEPT ![mt][R.modeid[mh]] = NULL]
           ELSE R.modehandlersbyid,
       mhlist |->
         IF IsPrefixMode(mh) THEN [R.mhlist EXCEPT !.prefix = Without(@, mh)]
         ELSE IF IsListModeBase(mh) THEN [R.mhlist EXCEPT !.list = Without(@, mh)]
         ELSE R.mhlist,
       modeid |-> R.modeid]

(***************************************************************************)
(* The state of a Process call, the record of its last pass, CleanMask's    *)
(* argument                                                                 *)
(***************************************************************************)
VARIABLES
  LastChangeList,  \* ModeParser::LastChangeList
  call,            \* the arguments of the Process call under way
  processed,       \* Process's count of the Changes gone over
  passlog,         \* what became of each Change of the last ProcessSingle pass
  sent,            \* the MODE events of the call so far, each a list of Changes
  mask,            \* the string CleanMask works on, in place
  prevmask,        \* the string as it was before the last CleanMask call
  cleaned          \* the number of times CleanMask was applied to it

procvars == <<call, processed, passlog, sent>>
cleanvars == <<mask, prevmask, cleaned>>

(***************************************************************************)
(* The state of the timer manager                                           *)
(***************************************************************************)
VARIABLES
  Time,            \* ServerInstance->Time()
  timerobj,        \* the Timer objects: trigger, secs, repeat
  Timers,          \* TimerManager::Timers, the entries in the map's order
  tick,            \* the TickTimers call under way: its TIME and its iterator
  fired,           \* the Tick calls of the last TickTimers call, in order
  atstart,         \* Timers as the last TickTimers call found it
  addorder         \* the scheduled timers in the order of their AddTimer calls

timervars == <<Time, timerobj, Timers, tick, fired, atstart, addorder>>

(***************************************************************************)
(* The state of the X-line store                                            *)
(***************************************************************************)
VARIABLES
  xlines,          \* per kind, the lines of the kind's set in insertion order
  displayed,       \* the lines DisplayExpiry was called on in the last expiry run
  silent,          \* m_svshold's silent flag
  xreply           \* the last X-line command's result and what it wrote

xlinevars == <<xlines, displayed, silent, xreply>>

(***************************************************************************)
(* The state of the configuration parser                                    *)
(***************************************************************************)
VARIABLES
  conffiles,       \* the file system: the tags of each file, the directories,
                   \* the tags each program prints
  reading,         \* ParseStack::reading, the paths of the files being read
  parsers,         \* the Parser objects of the ParseFile calls under way
  stackvars,       \* ParseStack::vars
  output,          \* ParseStack::output, the tags read, in file order
  FilesOutput,     \* ParseStack::FilesOutput, the files read for each key
  errstr,          \* ParseStack::errstr, a sequence of messages
  parsed           \* "idle", "running", or the result of the last read

parservars == <<conffiles, reading, parsers, stackvars, output, FilesOutput, errstr, parsed>>

(***************************************************************************)
(* The state of the log manager                                             *)
(***************************************************************************)
VARIABLES
  LogStreams,        \* LogManager::LogStreams: type -> the streams of the type
  GlobalLogStreams,  \* LogManager::GlobalLogStreams: stream -> excluded types
  AllLogStreams,     \* LogManager::AllLogStreams: stream -> count of its types
  Logging,           \* LogManager::Logging
  livestreams,       \* the LogStream objects that exist
  logcalls,          \* the Log calls under way, the innermost last
  onlog,             \* the OnLog calls of the Log call under way
  nestedlogs,        \* the Log calls made from inside OnLog in the last Log call
  logstate           \* "up", or "crashed" by a call on a deleted stream

logvars == <<LogStreams, GlobalLogStreams, AllLogStreams, Logging, livestreams,
             logcalls, onlog, nestedlogs, logstate>>

(***************************************************************************)
(* The state of the modules that keep a set read from the configuration     *)
(***************************************************************************)
VARIABLES
  profiles,          \* ModuleSSLGnuTLS::profiles: the providers in use, in order
  services,          \* the providers registered with ModuleManager::AddService
  allowchans,        \* ModuleRestrictChans::allowchans
  allowregistered,   \* ModuleRestrictChans::allowregistered
  vhosts,            \* CommandVhost::vhosts: user name -> its entries in order
  modstate,          \* module -> "absent", "constructed", "loaded" or "failed"
  lastread           \* the last configuration read: module, tags, and how it ended

rehashvars == <<profiles, services, allowchans, allowregistered, vhosts, modstate, lastread>>

(***************************************************************************)
(* The state that the user commands work on                                 *)
(***************************************************************************)
VARIABLES
  awaymsg,           \* [user]: User::awaymsg
  awaytime,          \* [user]: User::awaytime
  MaxAway,           \* ServerInstance->Config->Limits.MaxAway
  lastaway           \* the last AWAY command: its user, parameters and outcome

awayvars == <<awaymsg, awaytime, MaxAway, lastaway>>

VARIABLES
  shunlines,         \* the masks of the lines of the SHUN set
  cleanedcommands,   \* ModuleShun::cleanedcommands
  enabledcommands,   \* ModuleShun::enabledcommands
  allowconnect,      \* ModuleShun::allowconnect
  allowtags,         \* ModuleShun::allowtags
  notifyuser,        \* ModuleShun::notifyuser
  lastcmd            \* the last command a user sent and what became of it

shunvars == <<shunlines, cleanedcommands, enabledcommands, allowconnect, allowtags,
              notifyuser, lastcmd>>

VARIABLES
  banlist,           \* the ban list of each channel
  redirects,         \* BanRedirect::extItem: the BanRedirectList of each channel
  nofollow,          \* ModuleBanRedirect::nofollow
  joinstack,         \* the Channel::JoinUser calls that have not returned yet
  lastban,           \* the last ban change: who sent what and what became of it
  lastjoin           \* the last JOIN a user sent and what it has caused so far

banvars == <<banlist, redirects, nofollow, joinstack, lastban, lastjoin>>

VARIABLES
  hostmap,           \* CommandSethost::hostmap: the characters that are set
  MaxHost,           \* ServerInstance->Config->Limits.MaxHost
  displayedhost,     \* the displayed host of each user
  lastsethost        \* the last SETHOST command and what became of it

sethostvars == <<hostmap, MaxHost, displayedhost, lastsethost>>

\* two linked servers that hold the same channel
VARIABLES
  servermodes,  \* [server]: the mode state of the channel on that server
  burst,        \* [server]: the parameter the server held when the link came up
  inflight      \* [server]: the other side's parameter, still to be merged there

mergevars == <<servermodes, burst, inflight>>

\* two linked servers and the SAPART, SAKICK and SAQUIT commands between them
VARIABLES
  saview,    \* [server]: the users and channel members the server knows
  sawire,    \* the messages on their way between the servers, in order
  saissued,  \* the last command an operator gave, and the view it was given in
  saruns,    \* the Handle calls of the last step, each with its outcome
  sadone     \* the parts, kicks and quits done since the command was given

savars == <<saview, sawire, saissued, saruns, sadone>>

\* the sasl module: the authenticators of the users and the server tracker
VARIABLES
  authExt,       \* authExt: the SaslAuthenticator of each user, if any
  capsasl,       \* the users that hold the sasl capability
  saslsessions,  \* every authenticator made so far: its states and numerics
  lastsasl,      \* the last AUTHENTICATE or SASL command and what it did
  sasl_target,   \* <sasl:target>
  requiressl,    \* SASLCap::requiressl
  online,        \* ServerTracker::online
  linked,        \* the servers that are linked
  lastcap        \* the last CAP LS or CAP REQ and the answer for sasl

saslvars == <<authExt, capsasl, saslsessions, lastsasl, sasl_target, requiressl,
              online, linked, lastcap>>

cmdvars == <<awayvars, shunvars, banvars, sethostvars, mergevars, savars, saslvars>>
nonawayvars == <<shunvars, banvars, sethostvars, mergevars, savars, saslvars>>
nonshunvars == <<awayvars, banvars, sethostvars, mergevars, savars, saslvars>>
nonbanvars == <<awayvars, shunvars, sethostvars, mergevars, savars, saslvars>>
nonsethostvars == <<awayvars, shunvars, banvars, mergevars, savars, saslvars>>
nonmergevars == <<awayvars, shunvars, banvars, sethostvars, savars, saslvars>>
nonsavars == <<awayvars, shunvars, banvars, sethostvars, mergevars, saslvars>>
nonsaslvars == <<awayvars, shunvars, banvars, sethostvars, mergevars, savars>>

\* the mode parser's state, and the state of the rest of the server
modevars == <<regvars, lastop, worldvars, MaxModes, modewatchermap, LastChangeList,
              procvars, cleanvars>>
othervars == <<timervars, xlinevars, parservars, logvars, rehashvars, cmdvars>>
nontimervars == <<modevars, xlinevars, parservars, logvars, rehashvars, cmdvars>>
nonxlinevars == <<modevars, timervars, parservars, logvars, rehashvars, cmdvars>>
nonparservars == <<modevars, timervars, xlinevars, logvars, rehashvars, cmdvars>>
nonlogvars == <<modevars, timervars, xlinevars, parservars, rehashvars, cmdvars>>
nonrehashvars == <<modevars, timervars, xlinevars, parservars, logvars, cmdvars>>
noncmdvars == <<modevars, timervars, xlinevars, parservars, logvars, rehashvars>>
vars == <<modevars, othervars>>

NoCall == [user |-> NULL, chan |-> NULL, targetuser |-> NULL, list |-> <<>>,
           flags |-> {}, hook |-> NoHook]
NoOp == [op |-> "none", mh |-> NULL, result |-> "none"]

\* no Process call was made, CleanMask was not called
InitProc == call = NoCall /\ processed = 0 /\ passlog = <<>> /\ sent = <<>>
InitClean == mask = <<>> /\ prevmask = <<>> /\ cleaned = 0

\* the Timer objects of the model, and a Timer that is not scheduled: its owner
\* is done with it
TimerIds == {"A", "B", "C"}
NoTimer == [trigger |-> 0, secs |-> 0, repeat |-> FALSE]
NoTick == [on |-> FALSE, TIME |-> 0, i |-> 0]

\* the clock at its start, no timer scheduled, TickTimers never called
NoTimers ==
  /\ timerobj = [t \in TimerIds |-> NoTimer]
  /\ Timers = <<>>
  /\ tick = NoTick
  /\ fired = <<>>
  /\ atstart = <<>>
  /\ addorder = <<>>
InitTimers == Time = 0 /\ NoTimers

\* the kinds of X-line of the model, and a command that was not given
Kinds == {"SVSHOLD", "E"}
NoReply == [result |-> "none", wrote |-> <<>>]

\* no X-line is set; svshold's silent flag is not yet read from the configuration
InitXLines ==
  /\ xlines = [k \in Kinds |-> <<>>]
  /\ displayed = <<>>
  /\ silent = FALSE
  /\ xreply = NoReply

\* a file system without files
NoFiles == [files |-> <<>>, dirs |-> <<>>, programs |-> <<>>]

\* the configuration was not read: there is no ParseStack
NoParse ==
  /\ reading = <<>>
  /\ parsers = <<>>
  /\ stackvars = <<>>
  /\ output = <<>>
  /\ FilesOutput = <<>>
  /\ errstr = <<>>
  /\ parsed = "idle"

InitParser == conffiles = NoFiles /\ NoParse

\* no stream is registered, nothing is being logged
InitLog ==
  /\ LogStreams = <<>>
  /\ GlobalLogStreams = <<>>
  /\ AllLogStreams = <<>>
  /\ Logging = FALSE
  /\ livestreams = {}
  /\ logcalls = <<>>
  /\ onlog = <<>>
  /\ nestedlogs = 0
  /\ logstate = "up"

\* the three modules as their constructors leave them
ConfModules == {"ssl_gnutls", "restrictchans", "vhost"}
NoSets ==
  /\ profiles = <<>>
  /\ services = {}
  /\ allowchans = {}
  /\ allowregistered = FALSE
  /\ vhosts = <<>>
  /\ lastread = [module |-> "none"]

\* a server that has none of the three modules
InitRehash == NoSets /\ modstate = [m \in ConfModules |-> "absent"]

\* the users of the AWAY command: a local one and one of another server
AwayUsers == {"local", "remote"}
NoAway == [user |-> "NULL"]

\* nobody is away
InitAway ==
  /\ awaymsg = [u \in AwayUsers |-> <<>>]
  /\ awaytime = [u \in AwayUsers |-> 0]
  /\ MaxAway = 1
  /\ lastaway = NoAway

\* m_shun is not loaded
NoCmd == [user |-> "NULL"]
InitShun ==
  /\ shunlines = {}
  /\ cleanedcommands = {}
  /\ enabledcommands = {}
  /\ allowconnect = FALSE
  /\ allowtags = FALSE
  /\ notifyuser = FALSE
  /\ lastcmd = NoCmd

\* no ban is set and nobody is joining
ChanA == <<"#", "a">>
ChanB == <<"#", "b">>
ChanC == <<"#", "c">>
BanChannels == {ChanA, ChanB}
NoBan == [source |-> "NULL"]
NoJoin == [user |-> "NULL"]
InitBan ==
  /\ banlist = [c \in BanChannels |-> <<>>]
  /\ redirects = [c \in BanChannels |-> <<>>]
  /\ nofollow = FALSE
  /\ joinstack = <<>>
  /\ lastban = NoBan
  /\ lastjoin = NoJoin

\* m_sethost is not loaded
SethostUsers == {"oper"}
OldHost == <<"o", "l", "d">>
NoSethost == [user |-> "NULL"]
InitSethost ==
  /\ hostmap = {}
  /\ MaxHost = 1
  /\ displayedhost = [u \in SethostUsers |-> OldHost]
  /\ lastsethost = NoSethost

\* no server is linked
InitMerge ==
  /\ servermodes = <<>>
  /\ burst = <<>>
  /\ inflight = <<>>

\* no SA command was given and no server is known
NoSa == [cmd |-> "none"]

InitSa ==
  /\ saview = <<>>
  /\ sawire = <<>>
  /\ saissued = NoSa
  /\ saruns = <<>>
  /\ sadone = <<>>

\* the sasl module is not loaded
NoSasl == [cmd |-> "none"]

InitSasl ==
  /\ authExt = <<>>
  /\ capsasl = {}
  /\ saslsessions = <<>>
  /\ lastsasl = NoSasl
  /\ sasl_target = <<>>
  /\ requiressl = FALSE
  /\ online = FALSE
  /\ linked = {}
  /\ lastcap = NoSasl

\* no user command was given
InitCommands == InitAway /\ InitShun /\ InitBan /\ InitSethost /\ InitMerge /\ InitSa /\ InitSasl

\* the rest of the server as it starts
InitOther == InitTimers /\ InitXLines /\ InitParser /\ InitLog /\ InitRehash /\ InitCommands

\* the registry as the constructor leaves it
InitRegistry ==
  /\ modehandlers = EmptyRegistry.modehandlers
  /\ modehandlersbyname = EmptyRegistry.modehandlersbyname
  /\ modehandlersbyid = EmptyRegistry.modehandlersbyid
  /\ mhlist = EmptyRegistry.mhlist
  /\ modeid = EmptyRegistry.modeid
  /\ lastop = NoOp

\* the given users and channels, the given members on each channel, no mode set
InitWorld(us, cs, members) ==
  /\ users = us
  /\ chans = cs
  /\ usermodes = [u \in us |-> {}]
  /\ chanmodes = [c \in cs |-> {}]
  /\ chanparams = [c \in cs |-> [h \in Handlers |-> <<>>]]
  /\ chanlists = [c \in cs |-> [h \in Handlers |-> <<>>]]
  /\ memberships = [c \in cs |-> [u \in members[c] |-> {}]]

SetRegistry(R) ==
  /\ modehandlers' = R.modehandlers
  /\ modehandlersbyname' = R.modehandlersbyname
  /\ modehandlersbyid' = R.modehandlersbyid
  /\ mhlist' = R.mhlist
  /\ modeid' = R.modeid

SetWorld(W) ==
  /\ usermodes' = W.usermodes
  /\ chanmodes' = W.chanmodes
  /\ chanparams' = W.chanparams
  /\ chanlists' = W.chanlists
  /\ memberships' = W.memberships
  /\ UNCHANGED <<users, chans>>

(***************************************************************************)
(* The registry's operations                                                *)
(***************************************************************************)
\* ModeParser::AddMode(mh)
AddMode(mh) ==
  /\ SetRegistry(AddModeIn(Registry, mh))
  /\ lastop' = [op |-> "AddMode", mh |-> mh, result |-> AddModeOutcome(Registry, mh)]
  /\ UNCHANGED <<worldvars, MaxModes, modewatchermap, LastChangeList, procvars, cleanvars, othervars>>

\* ModeHandler::Cull: DelMode(mh), after which the handler object is gone; a
\* handler registered later is a new object, with modeid MODEID_MAX
Destroyed(R, mh) == [R EXCEPT !.modeid[mh] = MODEID_MAX]

\* the mode state and LastChangeList as DelMode's removals leave them
Removed(r) == SetWorld(r.W) /\ LastChangeList' = r.last

\* ModeParser::DelMode(mh), called as the handler is culled
DelMode(mh) ==
  /\ IF DelModeFinds(mh)
       THEN /\ Removed(DelModeRemoves(World, LastChangeList, mh))
            /\ SetRegistry(Destroyed(DelModeErase(Registry, mh), mh))
            /\ lastop' = [op |-> "DelMode", mh |-> mh, result |-> "true"]
       ELSE /\ UNCHANGED <<regvars, worldvars, LastChangeList>>
            /\ lastop' = [op |-> "DelMode", mh |-> mh, result |-> "false"]
  /\ UNCHANGED <<MaxModes, modewatchermap, procvars, cleanvars, othervars>>

\* the handlers the modules of the model register
RegHandlers ==
  {"h_n", "h_n2", "h_k", "h_k2", "h_o", "h_q", "h_v", "h_b", "h_H", "h_1", "h_c"}

\* an empty registry; user x on channel #a, no mode set
Init ==
  /\ InitRegistry /\ InitProc /\ InitClean /\ InitOther
  /\ InitWorld({"x"}, {"#a"}, [c \in {"#a"} |-> {"x"}])
  /\ MaxModes = 1
  /\ modewatchermap = <<>>
  /\ LastChangeList = <<>>

Next ==
  \/ \E mh \in RegHandlers : AddMode(mh)
  \/ \E mh \in RegHandlers : DelMode(mh)

Spec == Init /\ [][Next]_vars

(***************************************************************************)
(* Deleting modes that are set                                              *)
(***************************************************************************)
\* the handlers the core registers as it starts, in order
StdHandlers == <<"h_n", "h_k", "h_o", "h_v", "h_b", "h_H">>

RECURSIVE AddAll(_, _)
AddAll(R, mhs) == IF mhs = <<>> THEN R ELSE AddAll(AddModeIn(R, Head(mhs)), Tail(mhs))

\* the registry once the core's handlers are registered
StdRegistry == AddAll(EmptyRegistry, StdHandlers)

InitStdRegistry ==
  /\ modehandlers = StdRegistry.modehandlers
  /\ modehandlersbyname = StdRegistry.modehandlersbyname
  /\ modehandlersbyid = StdRegistry.modehandlersbyid
  /\ mhlist = StdRegistry.mhlist
  /\ modeid = StdRegistry.modeid
  /\ lastop = NoOp

TwoChans == {"#a", "#b"}
MembersOf == [c \in TwoChans |-> IF c = "#a" THEN {"x", "y"} ELSE {"x"}]

\* users x and y, channels #a and #b, and any of the registered modes set: flags
\* and keys on the channels, op on the members, voice on x in #a, the user mode
\* on the users
InitDel ==
  /\ InitStdRegistry /\ InitProc /\ InitClean /\ InitOther
  /\ users = {"x", "y"}
  /\ chans = TwoChans
  /\ usermodes \in [users -> SUBSET {StdRegistry.modeid["h_H"]}]
  /\ chanmodes \in [chans -> SUBSET {StdRegistry.modeid["h_n"], StdRegistry.modeid["h_k"]}]
  /\ \E key \in [chans -> {<<"a">>, <<"b">>}] :
       chanparams = [c \in chans |-> [h \in Handlers |->
                       IF h = "h_k" /\ StdRegistry.modeid[h] \in chanmodes[c]
                         THEN key[c] ELSE <<>>]]
  /\ chanlists = [c \in chans |-> [h \in Handlers |-> <<>>]]
  /\ \E ops \in [chans -> SUBSET {"x", "y"}], voiced \in BOOLEAN :
       memberships = [c \in chans |-> [u \in MembersOf[c] |->
                        (IF u \in ops[c] THEN {"o"} ELSE {})
                          \cup (IF voiced /\ c = "#a" /\ u = "x" THEN {"v"} ELSE {})]]
  /\ MaxModes = 1
  /\ modewatchermap = <<>>
  /\ LastChangeList = <<>>

DelHandlers == {"h_n", "h_k", "h_o", "h_v", "h_H", "h_q"}

NextDel == \E mh \in DelHandlers : DelMode(mh)

SpecDel == InitDel /\ [][NextDel]_vars

(***************************************************************************)
(* Processing mode changes                                                  *)
(***************************************************************************)
\* ModeParser::AddModeWatcher
AddModeWatcher(map, mw) == Append(map, mw)

\* the values <limits:maxmodes> takes in the model
MaxModesValues == {1, 2, 6}

\* a Process call's arguments
Input(user, chan, targetuser, list, flags, hook) ==
  [user |-> user, chan |-> chan, targetuser |-> targetuser, list |-> list,
   flags |-> flags, hook |-> hook]

\* the single Changes asked for on channel #a
ChanChanges ==
  {Change("h_n", TRUE, <<>>), Change("h_n", FALSE, <<>>),
   Change("h_k", TRUE, <<"a">>), Change("h_k", TRUE, <<"b">>),
   Change("h_k", TRUE, <<"a", "b">>), Change("h_k", TRUE, <<>>),
   Change("h_k", TRUE, <<":">>), Change("h_k", FALSE, <<"a">>),
   Change("h_o", TRUE, <<"x">>), Change("h_o", FALSE, <<"x">>),
   Change("h_v", TRUE, <<"x">>), Change("h_v", FALSE, <<"x">>),
   Change("h_o", TRUE, <<"z">>), Change("h_b", TRUE, <<"a">>)}

\* the Changes that come with a merge: those that carry a parameter
MergeChanges == {c \in ChanChanges : NeedsParam(c.mh, c.adding)}

\* what the modules' OnRawMode hooks answer for a Change of handler mh
Hooks(mh) == {NoHook, [mh |-> mh, res |-> MOD_RES_ALLOW], [mh |-> mh, res |-> MOD_RES_DENY]}

\* a client's MODE command, a change the server makes itself, a change merged
\* from another server: each with one Change
SingleInputs ==
  UNION {{Input("x", "#a", NULL, <<c>>, {MODE_CHECKACCESS}, h) : h \in Hooks(c.mh)} :
           c \in ChanChanges}
    \cup {Input("srv", "#a", NULL, <<c>>, {MODE_LOCALONLY}, NoHook) : c \in ChanChanges}
    \cup {Input("srv", "#a", NULL, <<c>>, {MODE_MERGE}, NoHook) : c \in MergeChanges}
    \cup {Input(u, NULL, u, <<Change("h_H", adding, <<>>)>>, {MODE_CHECKACCESS}, NoHook) :
            u \in {"x", "y"}, adding \in BOOLEAN}
    \cup {Input("srv", NULL, "y", <<Change("h_H", adding, <<>>)>>, {MODE_LOCALONLY}, NoHook) :
            adding \in BOOLEAN}

\* +n-n+n... or -n+n-n..., len Changes long
Alternating(len, first) ==
  [i \in 1..len |-> Change("h_n", IF i % 2 = 1 THEN first ELSE ~first, <<>>)]

\* the Changes the longer lists are made of
ListChanges == {Change("h_n", TRUE, <<>>), Change("h_n", FALSE, <<>>),
                Change("h_k", TRUE, <<"b">>)}

\* the lists of two Changes, the lists of three Changes of the flag, and the long
\* alternating ones
Lists ==
  {<<a, b>> : a \in ListChanges, b \in ListChanges}
    \cup {<<Change("h_n", a, <<>>), Change("h_n", b, <<>>), Change("h_n", c, <<>>)>> :
            a \in BOOLEAN, b \in BOOLEAN, c \in BOOLEAN}
    \cup {Alternating(len, first) : len \in {MaxChanges - 3, MaxChanges}, first \in BOOLEAN}

ListInputs == {Input("srv", "#a", NULL, l, {MODE_LOCALONLY}, NoHook) : l \in Lists}

Inputs == SingleInputs \cup ListInputs

\* the Changes of a list name registered handlers, as ModeParamsToChangeList
\* leaves them
Registered(list, type) ==
  \A i \in 1..Len(list) : FindMode(GetModeChar(list[i].mh), type) = list[i].mh

\* what a ProcessSingle pass from list[from] leaves, r being its result
PassDone(r, from, before) ==
  /\ SetWorld(r.W)
  /\ LastChangeList' = r.last
  /\ processed' = from + r.n
  /\ passlog' = r.log
  /\ sent' = before \o r.events

\* one ProcessSingle pass of the call under way
RunPass(c, from, before) ==
  PassDone(ProcessSingle(World, c.user, c.chan, c.targetuser, c.list, c.flags, c.hook, from),
           from, before)

\* ModeParser::Process is called: its first ProcessSingle pass
ProcessCall(c) ==
  /\ call = NoCall
  /\ Registered(c.list, IF c.chan # NULL THEN MODETYPE_CHANNEL ELSE MODETYPE_USER)
  /\ call' = c
  /\ RunPass(c, 0, <<>>)
  /\ UNCHANGED <<regvars, lastop, MaxModes, modewatchermap, cleanvars, othervars>>

\* the loop of Process: another pass while Changes are left
ProcessNextPass ==
  /\ call # NoCall
  /\ processed < Len(call.list)
  /\ RunPass(call, processed, sent)
  /\ UNCHANGED <<regvars, lastop, MaxModes, modewatchermap, call, cleanvars, othervars>>

\* Process returns
ProcessReturn ==
  /\ call # NoCall
  /\ processed >= Len(call.list)
  /\ call' = NoCall
  /\ processed' = 0
  /\ passlog' = <<>>
  /\ sent' = <<>>
  /\ UNCHANGED <<regvars, lastop, worldvars, MaxModes, modewatchermap, LastChangeList,
                 cleanvars, othervars>>

\* the core's handlers registered, two watchers added, users x and y on channel
\* #a, no mode set
InitProcess ==
  /\ InitStdRegistry /\ InitProc /\ InitClean /\ InitOther
  /\ InitWorld({"x", "y"}, {"#a"}, [c \in {"#a"} |-> {"x", "y"}])
  /\ MaxModes \in MaxModesValues
  /\ modewatchermap = AddModeWatcher(AddModeWatcher(<<>>, "w_pass"), "w_veto")
  /\ LastChangeList = <<>>

NextProc ==
  \/ \E c \in Inputs : ProcessCall(c)
  \/ ProcessNextPass
  \/ ProcessReturn

SpecProc == InitProcess /\ [][NextProc]_vars

(***************************************************************************)
(* Watchers registered and unregistered between mode changes                *)
(***************************************************************************)
\* ModeParser::DelModeWatcher: the first entry holding mw is erased
RECURSIVE DelModeWatcher(_, _)
DelModeWatcher(map, mw) ==
  IF map = <<>> THEN <<>>
  ELSE IF Head(map) = mw THEN Tail(map)
  ELSE <<Head(map)>> \o DelModeWatcher(Tail(map), mw)

\* ModeWatcher::ModeWatcher: a watcher is made and registers itself
ModeWatcherCtor(mw) ==
  /\ call = NoCall
  /\ \A i \in 1..Len(modewatchermap) : modewatchermap[i] # mw
  /\ modewatchermap' = AddModeWatcher(modewatchermap, mw)
  /\ UNCHANGED <<regvars, lastop, worldvars, MaxModes, LastChangeList, procvars, cleanvars, othervars>>

\* ModeWatcher::~ModeWatcher: a watcher unregisters itself
ModeWatcherDtor(mw) ==
  /\ call = NoCall
  /\ \E i \in 1..Len(modewatchermap) : modewatchermap[i] = mw
  /\ modewatchermap' = DelModeWatcher(modewatchermap, mw)
  /\ UNCHANGED <<regvars, lastop, worldvars, MaxModes, LastChangeList, procvars, cleanvars, othervars>>

\* the changes made while watchers come and go: a ban set and lifted by the
\* server, a ban asked for by x, who has no rank, the flag n, and a list
WatchedInputs ==
  {Input("srv", "#a", NULL, <<c>>, {MODE_LOCALONLY}, NoHook) :
     c \in {Change("h_b", TRUE, <<"a">>), Change("h_b", FALSE, <<"a">>),
            Change("h_n", TRUE, <<>>)}}
    \cup {Input("x", "#a", NULL, <<Change("h_b", TRUE, <<"a">>)>>, {MODE_CHECKACCESS}, NoHook),
          Input("srv", "#a", NULL, <<Change("h_b", TRUE, <<"a">>), Change("h_b", FALSE, <<"a">>)>>,
                {MODE_LOCALONLY}, NoHook)}

\* the core's handlers registered, no watcher yet, users x and y on channel #a
InitWatch ==
  /\ InitStdRegistry /\ InitProc /\ InitClean /\ InitOther
  /\ InitWorld({"x", "y"}, {"#a"}, [c \in {"#a"} |-> {"x", "y"}])
  /\ MaxModes = 1
  /\ modewatchermap = <<>>
  /\ LastChangeList = <<>>

NextWatch ==
  \/ \E mw \in Watchers : ModeWatcherCtor(mw)
  \/ \E mw \in Watchers : ModeWatcherDtor(mw)
  \/ \E c \in WatchedInputs : ProcessCall(c)
  \/ ProcessNextPass
  \/ ProcessReturn

SpecWatch == InitWatch /\ [][NextWatch]_vars

(***************************************************************************)
(* Cleaning masks                                                           *)
(***************************************************************************)
\* ModeParser::CleanMask(mask): the string is rewritten in place
CleanMaskCall ==
  /\ cleaned < MaxCleans
  /\ prevmask' = mask
  /\ mask' = CleanMask(mask)
  /\ cleaned' = cleaned + 1
  /\ UNCHANGED <<regvars, lastop, worldvars, MaxModes, modewatchermap, LastChangeList,
                 procvars, othervars>>

\* any mask of the model, not yet cleaned
InitCleanMask ==
  /\ InitRegistry /\ InitProc /\ InitOther
  /\ InitWorld({"x"}, {"#a"}, [c \in {"#a"} |-> {"x"}])
  /\ MaxModes = 1
  /\ modewatchermap = <<>>
  /\ LastChangeList = <<>>
  /\ mask \in Masks
  /\ prevmask = <<>>
  /\ cleaned = 0

NextClean == CleanMaskCall

SpecClean == InitCleanMask /\ [][NextClean]_vars

(***************************************************************************)
(* TimerManager                                                             *)
(***************************************************************************)
\* the intervals timers are made with
Intervals == {0, 1, 2}

\* std::multimap::emplace: the entry goes behind the entries of keys not larger
Emplace(map, key, t) ==
  LET p == Cardinality({k \in 1..Len(map) : map[k].key <= key})
  IN  SubSeq(map, 1, p) \o <<[key |-> key, t |-> t]>> \o SubSeq(map, p + 1, Len(map))

\* the entry goes before the entries of the same key
AddTimerInFront(map, key, t) ==
  LET p == Cardinality({k \in 1..Len(map) : map[k].key < key})
  IN  SubSeq(map, 1, p) \o <<[key |-> key, t |-> t]>> \o SubSeq(map, p + 1, Len(map))

\* TimerManager::AddTimer
AddTimer(map, key, t) == Emplace(map, key, t)

\* TimerManager::DelTimer: the first entry of t among those of its trigger is
\* erased
DelTimer(map, key, t) ==
  LET hits == {k \in 1..Len(map) : map[k].key = key /\ map[k].t = t}
  IN  IF hits = {} THEN map
      ELSE LET h == CHOOSE k \in hits : \A j \in hits : k <= j
           IN  SubSeq(map, 1, h - 1) \o SubSeq(map, h + 1, Len(map))

\* a sequence of timers without t
Unlisted(seq, t) == SelectSeq(seq, LAMBDA x : x # t)

IsScheduled(map, t) == \E k \in 1..Len(map) : map[k].t = t

\* between TickTimers calls the record of the last call is dropped
Forgotten == tick' = NoTick /\ fired' = <<>> /\ atstart' = <<>>

\* Timer::Timer and AddTimer: a timer is made to fire secs seconds from now and
\* is scheduled
NewTimer(t, secs, repeat) ==
  /\ ~tick.on
  /\ ~IsScheduled(Timers, t)
  /\ timerobj' = [timerobj EXCEPT ![t] = [trigger |-> Time + secs, secs |-> secs,
                                          repeat |-> repeat]]
  /\ Timers' = AddTimer(Timers, Time + secs, t)
  /\ addorder' = Append(Unlisted(addorder, t), t)
  /\ Forgotten
  /\ UNCHANGED <<Time, nontimervars>>

\* Timer::~Timer: DelTimer
TimerDtor(t) ==
  /\ ~tick.on
  /\ IsScheduled(Timers, t)
  /\ Timers' = DelTimer(Timers, timerobj[t].trigger, t)
  /\ timerobj' = [timerobj EXCEPT ![t] = NoTimer]
  /\ addorder' = Unlisted(addorder, t)
  /\ Forgotten
  /\ UNCHANGED <<Time, nontimervars>>

\* Timer::SetInterval
SetInterval(t, newinterval) ==
  /\ ~tick.on
  /\ IsScheduled(Timers, t)
  /\ timerobj' = [timerobj EXCEPT ![t].secs = newinterval, ![t].trigger = Time + newinterval]
  /\ Timers' = AddTimer(DelTimer(Timers, timerobj[t].trigger, t), Time + newinterval, t)
  /\ addorder' = Append(Unlisted(addorder, t), t)
  /\ Forgotten
  /\ UNCHANGED <<Time, nontimervars>>

\* the main loop's clock goes on by a second
AdvanceTime ==
  /\ ~tick.on
  /\ Time < MaxTime
  /\ Time' = Time + 1
  /\ Forgotten
  /\ UNCHANGED <<timerobj, Timers, addorder, nontimervars>>

\* TimerManager::TickTimers(TIME) is called with the clock's time
TickTimersCall ==
  /\ ~tick.on
  /\ tick' = [on |-> TRUE, TIME |-> Time, i |-> 1]
  /\ fired' = <<>>
  /\ atstart' = Timers
  /\ UNCHANGED <<Time, timerobj, Timers, addorder, nontimervars>>

\* the loop of TickTimers is over: no entry is left or the next is not due
TickDone ==
  IF tick.i > Len(Timers) THEN TRUE ELSE timerobj[Timers[tick.i].t].trigger > tick.TIME

\* TickTimers returns
TickTimersReturn ==
  /\ tick.on
  /\ TickDone
  /\ tick' = [tick EXCEPT !.on = FALSE]
  /\ UNCHANGED <<Time, timerobj, Timers, fired, atstart, addorder, nontimervars>>

\* the fired timer is scheduled again whatever Tick returned
RescheduledAlways(ret, repeat) == repeat

\* a fired timer is scheduled again
Rescheduled(ret, repeat) == ret /\ repeat

\* the map once the entry at the iterator is erased
Erased(map, i) == SubSeq(map, 1, i - 1) \o SubSeq(map, i + 1, Len(map))

\* where the iterator stands once the map has a new entry: at the entry it
\* pointed to, or at the end
IteratorAfter(before, after, i) ==
  IF i > Len(before) THEN Len(after) + 1
  ELSE CHOOSE k \in 1..Len(after) : after[k].t = before[i].t

\* what Tick is told of: the timer, its trigger, the call's TIME, Tick's answer and
\* the timers of the same trigger that wait though they were added before it
Fired(t, ret) ==
  [t |-> t, trigger |-> timerobj[t].trigger, TIME |-> tick.TIME, ret |-> ret,
   earlier |-> {u \in TimerIds \ {t} :
                  /\ IsScheduled(Timers, u)
                  /\ timerobj[u].trigger = timerobj[t].trigger
                  /\ \E a, b \in 1..Len(addorder) :
                       a < b /\ addorder[a] = u /\ addorder[b] = t}]

\* one turn of the loop of TickTimers: the entry at the iterator is erased, its
\* timer's Tick is called and answers ret
TickTurn(t, ret) ==
  /\ fired' = Append(fired, Fired(t, ret))
  /\ IF Rescheduled(ret, timerobj[t].repeat)
       THEN /\ timerobj' = [timerobj EXCEPT ![t].trigger = tick.TIME + timerobj[t].secs]
            /\ Timers' = AddTimer(Erased(Timers, tick.i), tick.TIME + timerobj[t].secs, t)
            /\ tick' = [tick EXCEPT !.i = IteratorAfter(Erased(Timers, tick.i), Timers', tick.i)]
            /\ addorder' = Append(Unlisted(addorder, t), t)
       ELSE /\ timerobj' = [timerobj EXCEPT ![t] = NoTimer]
            /\ Timers' = Erased(Timers, tick.i)
            /\ addorder' = Unlisted(addorder, t)
            /\ UNCHANGED tick
  /\ UNCHANGED <<Time, atstart, nontimervars>>

TickTimersLoop(ret) ==
  /\ tick.on
  /\ ~TickDone
  /\ Len(fired) < MaxFired
  /\ TickTurn(Timers[tick.i].t, ret)

NextTimer ==
  \/ \E t \in TimerIds, secs \in Intervals, repeat \in BOOLEAN : NewTimer(t, secs, repeat)
  \/ \E t \in TimerIds : TimerDtor(t)
  \/ \E t \in TimerIds, secs \in Intervals : SetInterval(t, secs)
  \/ AdvanceTime
  \/ TickTimersCall
  \/ \E ret \in BOOLEAN : TickTimersLoop(ret)
  \/ TickTimersReturn

\* the server as it starts
InitModeParser ==
  /\ InitRegistry /\ InitProc /\ InitClean
  /\ InitWorld({"x"}, {"#a"}, [c \in {"#a"} |-> {"x"}])
  /\ MaxModes = 1
  /\ modewatchermap = <<>>
  /\ LastChangeList = <<>>

InitServer == InitModeParser /\ InitOther

SpecTimer == InitServer /\ [][NextTimer]_vars

(***************************************************************************)
(* The X-line store and the commands that fill it                           *)
(***************************************************************************)
\* InspIRCd::Duration: the seconds a duration string stands for, -1 when it is
\* none
Duration(str) ==
  CASE str = "0" -> 0
    [] str = "5" -> 5
    [] str = "5s" -> 5
    [] str = "1m" -> 60
    [] OTHER -> -1

\* XLine::XLine: the line a command makes; expiry is set_time + duration
XLine(type, s_time, d, src, displayable) ==
  [type |-> type, set_time |-> s_time, duration |-> d, expiry |-> s_time + d,
   source |-> src, mask |-> displayable]

\* the line of that kind and Displayable(), 0 if there is none
LineIndex(lines, displayable) ==
  IF \E k \in 1..Len(lines) : lines[k].mask = displayable
    THEN CHOOSE k \in 1..Len(lines) : lines[k].mask = displayable
    ELSE 0

\* XLineManager::AddLine: fails when the kind has a line of the same Displayable()
AddLineOk(lines, line) == LineIndex(lines, line.mask) = 0
AddLine(lines, line) == Append(lines, line)

\* XLineManager::DelLine
DelLine(lines, displayable) == SelectSeq(lines, LAMBDA l : l.mask # displayable)

\* the lines an expiry run at now takes out: those with a duration whose expiry is
\* not after now
IsExpired(line, now) == line.duration # 0 /\ line.expiry <= now
Expired(lines, now) == SelectSeq(lines, LAMBDA l : IsExpired(l, now))
Unexpired(lines, now) == SelectSeq(lines, LAMBDA l : ~IsExpired(l, now))

\* SVSHold::DisplayExpiry
SVSHoldDisplayExpiry(line) ==
  IF ~silent THEN <<"Removing expired SVSHOLD">> ELSE <<>>

\* the users that give X-line commands: a services pseudoclient and an operator
IsService(user) == user = "services"
XLineUsers == {"services", "oper"}

\* the line is made without the duration asked for
NewSVSHoldPermanent(user, parameters) ==
  XLine("SVSHOLD", Time, 0, user, parameters[1]) @@ [reason |-> parameters[3]]

\* the line CommandSvshold::Handle makes of its parameters
NewSVSHold(user, parameters) ==
  XLine("SVSHOLD", Time, Duration(parameters[2]), user, parameters[1])
    @@ [reason |-> parameters[3]]

\* what CommandSvshold::Handle answers and does to the SVSHOLD lines
SvsholdOutcome(user, parameters) ==
  IF ~IsService(user)
    THEN [result |-> "FAILURE", wrote |-> <<>>, lines |-> xlines["SVSHOLD"]]
  ELSE IF Len(parameters) = 1
    THEN IF LineIndex(xlines["SVSHOLD"], parameters[1]) # 0
           THEN [result |-> "SUCCESS",
                 wrote |-> IF ~silent THEN <<"removed SVSHOLD">> ELSE <<>>,
                 lines |-> DelLine(xlines["SVSHOLD"], parameters[1])]
           ELSE [result |-> "SUCCESS", wrote |-> <<"not found on the list">>,
                 lines |-> xlines["SVSHOLD"]]
  ELSE IF Len(parameters) < 3
    THEN [result |-> "FAILURE", wrote |-> <<>>, lines |-> xlines["SVSHOLD"]]
  ELSE IF Duration(parameters[2]) < 0
    THEN [result |-> "FAILURE", wrote |-> <<"Invalid duration for SVSHOLD.">>,
          lines |-> xlines["SVSHOLD"]]
  ELSE IF AddLineOk(xlines["SVSHOLD"], NewSVSHold(user, parameters))
    THEN [result |-> "SUCCESS",
          wrote |-> IF silent THEN <<>>
                    ELSE IF Duration(parameters[2]) = 0 THEN <<"added permanent SVSHOLD">>
                    ELSE <<"added timed SVSHOLD">>,
          lines |-> AddLine(xlines["SVSHOLD"], NewSVSHold(user, parameters))]
  ELSE [result |-> "FAILURE", wrote |-> <<>>, lines |-> xlines["SVSHOLD"]]

\* an X-line command is done: out is its outcome for the lines of the kind
Handled(kind, out) ==
  /\ xlines' = [xlines EXCEPT ![kind] = out.lines]
  /\ xreply' = [result |-> out.result, wrote |-> out.wrote]
  /\ displayed' = <<>>
  /\ UNCHANGED <<silent, nonxlinevars>>

\* CommandSvshold::Handle
CommandSvsholdHandle(user, parameters) ==
  /\ ~tick.on
  /\ Handled("SVSHOLD", SvsholdOutcome(user, parameters))

\* the E-line targets of the model: a mask, a mask that matches everyone, and one
\* IdentSplit finds no ident in
IdentOf(target) == IF target = "@" THEN "" ELSE "*"
MatchesEveryone(target) == target = "*@*"
ElineTargets == {"*@h", "*@*", "@"}

\* the line CommandEline::Handle makes of its parameters
NewELine(user, parameters) ==
  XLine("E", Time, Duration(parameters[2]), user, parameters[1])

\* what CommandEline::Handle answers and does to the E-lines
ElineOutcome(user, parameters) ==
  IF Len(parameters) >= 3
    THEN IF IdentOf(parameters[1]) = ""
           THEN [result |-> "FAILURE", wrote |-> <<"Target not found.">>, lines |-> xlines["E"]]
         ELSE IF MatchesEveryone(parameters[1])
           THEN [result |-> "FAILURE", wrote |-> <<>>, lines |-> xlines["E"]]
         ELSE IF Duration(parameters[2]) < 0
           THEN [result |-> "FAILURE", wrote |-> <<"Invalid duration for E-line.">>,
                 lines |-> xlines["E"]]
         ELSE IF AddLineOk(xlines["E"], NewELine(user, parameters))
           THEN [result |-> "SUCCESS",
                 wrote |-> IF Duration(parameters[2]) = 0 THEN <<"added permanent E-line">>
                           ELSE <<"added timed E-line">>,
                 lines |-> AddLine(xlines["E"], NewELine(user, parameters))]
         ELSE [result |-> "SUCCESS", wrote |-> <<"already exists">>, lines |-> xlines["E"]]
  ELSE IF LineIndex(xlines["E"], parameters[1]) # 0
    THEN [result |-> "SUCCESS", wrote |-> <<"removed E-line">>,
          lines |-> DelLine(xlines["E"], parameters[1])]
  ELSE [result |-> "SUCCESS", wrote |-> <<"not found on the list">>, lines |-> xlines["E"]]

\* CommandEline::Handle
CommandElineHandle(user, parameters) ==
  /\ ~tick.on
  /\ Handled("E", ElineOutcome(user, parameters))

\* ModuleSVSHold::ReadConfig
SvsholdReadConfig(value) ==
  /\ silent' = value
  /\ UNCHANGED <<xlines, displayed, xreply, nonxlinevars>>

\* the store's expiry run at the clock's time: the lines that are due leave their
\* kind's set and DisplayExpiry is called on each
Expire ==
  /\ ~tick.on
  /\ xlines' = [k \in Kinds |-> Unexpired(xlines[k], Time)]
  /\ displayed' = Expired(xlines["SVSHOLD"], Time) \o Expired(xlines["E"], Time)
  /\ xreply' = [result |-> "expiry",
                wrote |-> IF Expired(xlines["SVSHOLD"], Time) # <<>>
                            THEN SVSHoldDisplayExpiry(Expired(xlines["SVSHOLD"], Time)[1])
                            ELSE <<>>]
  /\ UNCHANGED <<silent, nonxlinevars>>

\* seconds go by
SecondsPass(n) ==
  /\ ~tick.on
  /\ Time + n <= MaxClock
  /\ Time' = Time + n
  /\ displayed' = <<>>
  /\ xreply' = NoReply
  /\ UNCHANGED <<timerobj, Timers, tick, fired, atstart, addorder, modevars, xlines, silent,
               parservars, logvars, rehashvars, cmdvars>>

\* SVSHold::Matches(const std::string&): the nick is the held one, in any
\* letter case
LowerNick(nick) == IF nick = "A" THEN "a" ELSE IF nick = "B" THEN "b" ELSE nick
SVSHoldMatches(line, s) == LowerNick(s) = LowerNick(line.mask)

\* XLineManager::MatchesLine: the first line of the kind that matches, 0 when
\* none does
MatchesLine(kind, s) ==
  IF \E k \in 1..Len(xlines[kind]) : SVSHoldMatches(xlines[kind][k], s)
  THEN CHOOSE k \in 1..Len(xlines[kind]) :
         /\ SVSHoldMatches(xlines[kind][k], s)
         /\ \A j \in 1..(k - 1) : ~SVSHoldMatches(xlines[kind][j], s)
  ELSE 0

ERR_ERRONEUSNICKNAME == "ERR_ERRONEUSNICKNAME"
Reserved(newnick, reason) ==
  <<ERR_ERRONEUSNICKNAME, newnick, "Services reserved nickname: ", reason>>

\* what OnUserPreNick answers and writes
PreNicked(user, newnick, res, wrote) ==
  [result |-> res, wrote |-> wrote, kind |-> "NICK", user |-> user, nick |-> newnick]

\* ModuleSVSHold::OnUserPreNick that lets every nick pass
OnUserPreNickOpen(user, newnick) ==
  PreNicked(user, newnick, MOD_RES_PASSTHRU, <<>>)
\* ModuleSVSHold::OnUserPreNick
OnUserPreNick(user, newnick) ==
  LET rl == MatchesLine("SVSHOLD", newnick)
  IN  IF rl # 0
      THEN PreNicked(user, newnick, MOD_RES_DENY,
                     <<Reserved(newnick, xlines["SVSHOLD"][rl].reason)>>)
      ELSE PreNicked(user, newnick, MOD_RES_PASSTHRU, <<>>)

\* a user sends SVSHOLD: CommandSvshold::Handle, with the sender noted
CommandSvshold(user, parameters) ==
  /\ ~tick.on
  /\ xlines' = [xlines EXCEPT !["SVSHOLD"] = SvsholdOutcome(user, parameters).lines]
  /\ xreply' = [result |-> SvsholdOutcome(user, parameters).result,
                wrote |-> SvsholdOutcome(user, parameters).wrote,
                kind |-> "SVSHOLD", user |-> user]
  /\ displayed' = <<>>
  /\ UNCHANGED <<silent, nonxlinevars>>

\* a local user sends NICK <newnick>
NickChange(user, newnick) ==
  /\ ~tick.on
  /\ xreply' = OnUserPreNick(user, newnick)
  /\ displayed' = <<>>
  /\ UNCHANGED <<xlines, silent, nonxlinevars>>

NewNicks == {"a", "A", "c"}

\* the parameters of the SVSHOLD and ELINE commands of the model
SvsholdParams ==
  {<<nick>> : nick \in {"a", "b"}}
    \cup {<<"a", "5">>}
    \cup {<<"a", d, "reason">> : d \in {"0", "5", "x"}}
    \cup {<<"b", "5s", "reason">>}
ElineParams ==
  {<<t>> : t \in {"*@h"}}
    \cup {<<t, d, "reason">> : t \in ElineTargets, d \in {"0", "5", "x"}}

NextXLine ==
  \/ \E user \in XLineUsers, parameters \in SvsholdParams : CommandSvsholdHandle(user, parameters)
  \/ \E parameters \in ElineParams : CommandElineHandle("oper", parameters)
  \/ \E value \in BOOLEAN : SvsholdReadConfig(value)
  \/ Expire
  \/ \E n \in {1, 5} : SecondsPass(n)

SpecXLine == InitServer /\ [][NextXLine]_vars

\* the SVSHOLD set and the local users who change their nicks
NextHold ==
  \/ \E user \in XLineUsers, parameters \in SvsholdParams : CommandSvshold(user, parameters)
  \/ Expire
  \/ \E n \in {1, 5} : SecondsPass(n)
  \/ \E newnick \in NewNicks : NickChange("local", newnick)

SpecHold == InitServer /\ [][NextHold]_vars

(***************************************************************************)
(* C7: CleanMask is idempotent: cleaning a mask that CleanMask has already  *)
(* cleaned leaves it as it is, for every mask, the empty one included.      *)
(***************************************************************************)
CleanMaskIdempotent == cleaned >= 2 => mask = prevmask

\* a bare nick was cleaned twice: the first call made it nick!*@*
CleanMaskTwiceOnNick ==
  /\ cleaned = 2
  /\ mask = <<"a", "!", "*", "@", "*">>
  /\ prevmask = mask

(***************************************************************************)
(* The registry: lookups and ids                                            *)
(***************************************************************************)
\* a handler is registered when the name map of its type holds it
IsRegistered(mh) == modehandlersbyname[GetModeType(mh)][Handler[mh].name] = mh

\* a registered prefix mode other than mh uses mh's prefix character
PrefixTaken(mh) ==
  /\ IsPrefixMode(mh)
  /\ \E h \in Handlers : IsRegistered(h) /\ IsPrefixMode(h) /\ GetPrefix(h) = GetPrefix(mh)

\* the (type, letter) slot of mh holds a handler
SlotTaken(mh) ==
  \E h \in Handlers :
    IsRegistered(h) /\ GetModeType(h) = GetModeType(mh) /\ GetModeChar(h) = GetModeChar(mh)

\* this step is a call of AddMode(mh)
IsAddModeStep(mh) == lastop' # lastop /\ lastop'.op = "AddMode" /\ lastop'.mh = mh

\* this step is a call of DelMode(mh)
IsDelModeStep(mh) == lastop' # lastop /\ lastop'.op = "DelMode" /\ lastop'.mh = mh

FoundByLetter ==
  \A mh \in Handlers : IsRegistered(mh) => FindMode(GetModeChar(mh), GetModeType(mh)) = mh

AddedIsFound ==
  (lastop.op = "AddMode" /\ lastop.result = "ok") =>
    IsRegistered(lastop.mh) /\ FindMode(GetModeChar(lastop.mh), GetModeType(lastop.mh)) = lastop.mh

OccupiedSlotThrows ==
  \A mh \in Handlers :
    (IsAddModeStep(mh) /\ (SlotTaken(mh) \/ PrefixTaken(mh))) =>
      /\ lastop'.result # "ok"
      /\ UNCHANGED regvars

(***************************************************************************)
(* C1: after any sequence of AddMode and DelMode calls, FindMode(letter,    *)
(* type) returns h for every registered handler h of that type and letter;  *)
(* an AddMode whose (type, letter) slot is occupied, or whose prefix        *)
(* character a registered prefix mode uses, throws and registers nothing.   *)
(***************************************************************************)
LetterAndPrefixUnique ==
  /\ [](FoundByLetter /\ AddedIsFound)
  /\ [][OccupiedSlotThrows]_vars

\* noctcp was refused letter n, which noextmsg holds, while op holds prefix @
SecondLetterRefused ==
  /\ lastop = [op |-> "AddMode", mh |-> "h_n2", result |-> "letter used"]
  /\ FindMode("n", MODETYPE_CHANNEL) = "h_n"
  /\ FindPrefix("@") = "h_o"

\* the ids that no handler of the type holds
FreeIds(mt) == {i \in ModeIds : \A h \in Handlers :
                  ~(IsRegistered(h) /\ GetModeType(h) = mt /\ modeid[h] = i)}

IdsDistinct ==
  \A h1 \in Handlers, h2 \in Handlers :
    (/\ h1 # h2 /\ IsRegistered(h1) /\ IsRegistered(h2)
     /\ GetModeType(h1) = GetModeType(h2) /\ modeid[h1] # MODEID_MAX) =>
      modeid[h1] # modeid[h2]

IdSlotHeld ==
  \A h \in Handlers :
    (IsRegistered(h) /\ modeid[h] # MODEID_MAX) =>
      modehandlersbyid[GetModeType(h)][modeid[h]] = h

IdKept ==
  \A h \in Handlers : (IsRegistered(h) /\ IsRegistered(h)') => modeid'[h] = modeid[h]

IdFreedByDelMode ==
  \A h \in Handlers :
    (IsDelModeStep(h) /\ lastop'.result = "true" /\ modeid[h] # MODEID_MAX) =>
      /\ modehandlersbyid'[GetModeType(h)][modeid[h]] = NULL
      /\ modeid[h] \in FreeIds(GetModeType(h))'

IdTakenFromFree ==
  \A h \in Handlers :
    (IsAddModeStep(h) /\ lastop'.result = "ok" /\ modeid'[h] # MODEID_MAX) =>
      /\ modeid'[h] \in FreeIds(GetModeType(h))
      /\ \A i \in FreeIds(GetModeType(h)) : modeid'[h] <= i

(***************************************************************************)
(* C6: from the AddMode that allocates a handler's id until the DelMode of  *)
(* that handler the id does not change and no other registered handler of   *)
(* the same type holds it; DelMode frees the id slot, and a later AddMode   *)
(* takes the lowest free id, so a freed one is given out again.             *)
(***************************************************************************)
ModeIdStable ==
  /\ [](IdsDistinct /\ IdSlotHeld)
  /\ [][IdKept /\ IdFreedByDelMode /\ IdTakenFromFree]_vars

\* key was given id 0 while noextmsg holds id 1: id 0 was held when noextmsg
\* was added, so it was freed by a DelMode before key took it
FreedIdReused ==
  /\ lastop = [op |-> "AddMode", mh |-> "h_k", result |-> "ok"]
  /\ modeid["h_k"] = 0
  /\ IsRegistered("h_n") /\ modeid["h_n"] = 1

(***************************************************************************)
(* Deleting a mode: what is left of it                                      *)
(***************************************************************************)
\* the id the core's registration gave the handler, which it holds until DelMode
IdWhileRegistered(mh) == StdRegistry.modeid[mh]

\* no user has the user mode mh set
NoUserHolds(mh) == \A u \in users : IdWhileRegistered(mh) \notin usermodes[u]

\* no channel has the channel mode mh set or keeps a parameter or entry of it, and
\* no membership holds its prefix letter
NoChannelHolds(mh) ==
  \A c \in chans :
    /\ IsPrefixMode(mh) \/ IsListModeBase(mh) \/ IdWhileRegistered(mh) \notin chanmodes[c]
    /\ chanparams[c][mh] = <<>>
    /\ chanlists[c][mh] = <<>>
    /\ IsPrefixMode(mh) => \A u \in DOMAIN memberships[c] : GetModeChar(mh) \notin memberships[c][u]

\* no lookup finds mh
NoLookupFinds(mh) ==
  /\ FindMode(GetModeChar(mh), GetModeType(mh)) = NULL
  /\ FindModeByName(Handler[mh].name, GetModeType(mh)) = NULL
  /\ \A i \in ModeIds : modehandlersbyid[GetModeType(mh)][i] # mh
  /\ IdWhileRegistered(mh) # MODEID_MAX =>
       modehandlersbyid[GetModeType(mh)][IdWhileRegistered(mh)] = NULL
  /\ IsPrefixMode(mh) => FindPrefix(GetPrefix(mh)) = NULL /\ FindPrefixMode(GetModeChar(mh)) = NULL
  /\ \A i \in 1..Len(mhlist.prefix) : mhlist.prefix[i] # mh
  /\ \A i \in 1..Len(mhlist.list) : mhlist.list[i] # mh

(***************************************************************************)
(* C8: after a successful DelMode(h) no user (for a user mode) and no       *)
(* channel or membership (for a channel mode) has mode h set, and looking h *)
(* up by letter, by name and by id finds nothing.                           *)
(***************************************************************************)
DelModeLeavesNothing ==
  (lastop.op = "DelMode" /\ lastop.result = "true") =>
    /\ GetModeType(lastop.mh) = MODETYPE_USER => NoUserHolds(lastop.mh)
    /\ GetModeType(lastop.mh) = MODETYPE_CHANNEL => NoChannelHolds(lastop.mh)
    /\ NoLookupFinds(lastop.mh)

\* op was deleted, and the last channel walked lost its op: x, the member of #b
OpDeletedWhileHeld ==
  /\ lastop = [op |-> "DelMode", mh |-> "h_o", result |-> "true"]
  /\ LastChangeList = <<Change("h_o", FALSE, <<"x">>)>>
  /\ NoChannelHolds("h_o")

(***************************************************************************)
(* The record of a pass                                                     *)
(***************************************************************************)
\* the entries of the last pass
Entries == {passlog[i] : i \in DOMAIN passlog}

\* the Change was handed to TryMode
ReachedTryMode(e) == e.stage \notin {"no handler", "missing", "invalid", "merge"}

\* a local user's Change on a channel, processed with access checking on
AccessChecked(e) ==
  /\ call.chan # NULL
  /\ call.user # NULL /\ IS_LOCAL(call.user)
  /\ MODE_CHECKACCESS \in call.flags
  /\ ReachedTryMode(e)

\* the change got past the access check: only a watcher, the oper-only check or
\* the handler decided about it
Permitted(e) == e.stage \in {"watcher", "oper", "param", "handler", "allow"}

\* the change was refused for its rank
RankRefused(e) ==
  e.stage = "rank" /\ e.numerics = <<"ERR_CHANOPRIVSNEEDED">> /\ ~e.ran /\ e.ma = MODEACTION_DENY

RankDecides(e) ==
  /\ e.neededrank <= e.ourrank => Permitted(e)
  /\ e.neededrank > e.ourrank => RankRefused(e)

(***************************************************************************)
(* C2 as stated: for a local actor whose highest prefix rank on the channel *)
(* is R and a change processed with access checking on, a required rank     *)
(* <= R means the change is permitted (only a watcher, the oper-only check  *)
(* or the handler can stop it) and a required rank > R means it is rejected *)
(* with ERR_CHANOPRIVSNEEDED and the handler is never run.                  *)
(***************************************************************************)
RankAloneDecides == \A e \in Entries : AccessChecked(e) => RankDecides(e)

(***************************************************************************)
(* C2, amended: the rank decides as stated when no OnRawMode hook answers   *)
(* and the handler's AccessCheck passes the decision on. An OnRawMode DENY  *)
(* rejects the change without a numeric whatever the rank; an OnRawMode     *)
(* ALLOW, or an AccessCheck ALLOW (PrefixMode answers so when a member      *)
(* removes a self-removable prefix from themself), permits it whatever the  *)
(* rank.                                                                    *)
(***************************************************************************)
RankDecidesUnlessOverridden ==
  \A e \in Entries :
    AccessChecked(e) =>
      /\ (e.raw = MOD_RES_PASSTHRU /\ e.access = MOD_RES_PASSTHRU) => RankDecides(e)
      /\ e.raw = MOD_RES_DENY => e.stage = "rawmode" /\ e.numerics = <<>> /\ ~e.ran
      /\ (e.raw = MOD_RES_ALLOW \/ e.access = MOD_RES_ALLOW) => Permitted(e)

\* x, holding voice only, asked for +n, which takes rank 20000, and was refused
VoicedRefusedFlag ==
  \E e \in Entries :
    /\ AccessChecked(e) /\ call.user = "x"
    /\ e.change = Change("h_n", TRUE, <<>>)
    /\ e.raw = MOD_RES_PASSTHRU /\ e.access = MOD_RES_PASSTHRU
    /\ e.ourrank = 10000 /\ e.neededrank = 20000
    /\ RankRefused(e)

(***************************************************************************)
(* The cap of a pass                                                        *)
(***************************************************************************)
\* the number of Changes Process had gone over when the last pass began
PassStart == processed - Len(passlog)

\* every Change the last pass went over was allowed
AllAllowed == \A e \in Entries : e.ma = MODEACTION_ALLOW

Min(a, b) == IF a <= b THEN a ELSE b

\* a pass in which every Change is allowed: it applies MaxModes of them, or all
\* that were left if fewer, and the flag is as the last applied Change left it
CapOfPass ==
  (call # NoCall /\ passlog # <<>> /\ AllAllowed) =>
    /\ Len(passlog) = Min(MaxModes, Len(call.list) - PassStart)
    /\ Len(LastChangeList) = Len(passlog)
    /\ \A i \in 1..Len(passlog) : passlog[i].change = call.list[PassStart + i]
    /\ LET final == passlog[Len(passlog)].change
       IN  (call.chan # NULL /\ ~NeedsParam(final.mh, final.adding)) =>
             ChanIsModeSet(World, call.chan, final.mh) = final.adding

\* the next pass of a call begins with the first Change the pass before left
NextPassResumes ==
  (call # NoCall /\ call' = call /\ processed' # processed) =>
    /\ processed < Len(call.list)
    /\ passlog' # <<>>
    /\ passlog'[1].change = call.list[processed + 1]
    /\ processed' = processed + Len(passlog')

(***************************************************************************)
(* C3: with MaxModes = 6, a pass over a ChangeList of 10 Changes that are   *)
(* all allowed applies exactly the first 6 and leaves the other 4 unapplied *)
(* until the next pass, which begins with the 7th; in general a pass of     *)
(* allowed Changes applies min(MaxModes, Changes left) of them.             *)
(***************************************************************************)
MaxModesCap == []CapOfPass /\ [][NextPassResumes]_vars

\* MaxModes is 6 and the first pass over ten allowed Changes has applied six
SixOfTenApplied ==
  /\ MaxModes = 6
  /\ Len(call.list) = 10
  /\ processed = 6
  /\ Len(LastChangeList) = 6
  /\ AllAllowed
  /\ sent = <<LastChangeList>>

(***************************************************************************)
(* C4: every MODE event the mode processor emits carries at least 1 and at  *)
(* most MaxModes changes, whatever the length of the ChangeList and         *)
(* whichever Changes are denied.                                            *)
(***************************************************************************)
EventWithinCap ==
  /\ Len(LastChangeList) <= MaxModes
  /\ \A i \in DOMAIN sent : Len(sent[i]) >= 1 /\ Len(sent[i]) <= MaxModes

\* a pass that went over a denied Change and still filled its event to the cap
FullEventDespiteDenial ==
  /\ MaxModes >= 2
  /\ sent # <<>>
  /\ sent[Len(sent)] = LastChangeList
  /\ Len(LastChangeList) = MaxModes
  /\ \E e \in Entries : e.ma = MODEACTION_DENY

(***************************************************************************)
(* Parameter modes                                                          *)
(***************************************************************************)
\* a parameter that passes IsModeParamValid and is not cropped
ValidParam(P) ==
  /\ P # <<>>
  /\ P[1] # ":"
  /\ \A i \in DOMAIN P : P[i] # " "
  /\ Len(P) <= MODE_PARAM_MAX

\* a Change of a parameter mode on a channel
OfParamMode(e) == call.chan # NULL /\ IsParameterMode(e.change.mh)

(***************************************************************************)
(* C5: where parameter mode X is unset, +X with a valid parameter P sets it *)
(* so that IsModeSet(X) holds and GetModeParameter(X) = P; -X afterwards    *)
(* leaves IsModeSet(X) false and GetModeParameter(X) empty; +X with another *)
(* parameter while it is set replaces the stored parameter.                 *)
(***************************************************************************)
ParamModeRoundTrip ==
  \A e \in Entries :
    OfParamMode(e) =>
      \* the server's own change with a valid parameter reaches the handler
      /\ (call.user = FakeClient /\ MODE_MERGE \notin call.flags /\ ValidParam(e.change.param)) =>
           e.ran
      \* set, or replace: any parameter other than the stored one is stored
      /\ (e.ran /\ e.change.adding /\ ValidParam(e.change.param)
            /\ e.wasparam # e.change.param) =>
           /\ e.ma = MODEACTION_ALLOW
           /\ e.isset
           /\ e.isparam = e.change.param
           /\ e.param = e.change.param
      \* unset: nothing of the mode is left
      /\ (e.ran /\ ~e.change.adding) =>
           /\ ~e.isset
           /\ e.isparam = <<>>
           /\ e.wasset => e.ma = MODEACTION_ALLOW

\* the key was a, and +k b replaced it by b
KeyReplaced ==
  \E e \in Entries :
    /\ e.change = Change("h_k", TRUE, <<"b">>)
    /\ e.wasset /\ e.wasparam = <<"a">>
    /\ e.isset /\ e.isparam = <<"b">>
    /\ GetModeParameter(World, "#a", "h_k") = <<"b">>

\* a merged Change for a parameter mode that is set here and holds no list
MergeConflict(e) ==
  /\ MODE_MERGE \in call.flags
  /\ call.chan # NULL
  /\ e.change.mh # NULL
  /\ NeedsParam(e.change.mh, e.change.adding)
  /\ IsParameterMode(e.change.mh) /\ ~IsListMode(e.change.mh)
  /\ e.wasset
  /\ e.stage \notin {"missing", "invalid"}

(***************************************************************************)
(* C9: a merged Change for a non-list parameter mode that is set here is    *)
(* applied only when theirs < ours in the lexicographic order of            *)
(* std::string; otherwise it is skipped before any hook, watcher or handler *)
(* runs, and our parameter is kept.                                         *)
(***************************************************************************)
MergeKeepsSmaller ==
  \A e \in Entries :
    MergeConflict(e) =>
      /\ e.stage = "merge" <=> ~StrLess(e.change.param, e.wasparam)
      /\ e.stage = "merge" =>
           /\ e.ma = MODEACTION_DENY /\ ~e.ran
           /\ e.raw = "not asked" /\ e.access = "not asked"
           /\ e.before = <<>> /\ e.after = <<>>
           /\ e.isset /\ e.isparam = e.wasparam
      /\ e.isparam # e.wasparam => StrLess(e.change.param, e.wasparam)
      /\ (StrLess(e.change.param, e.wasparam) /\ e.change.adding) =>
           e.ma = MODEACTION_ALLOW /\ e.isparam = e.param

\* our key is a, the merged +k b is skipped and the key stays a
LargerKeySkipped ==
  \E e \in Entries :
    /\ MergeConflict(e)
    /\ e.change = Change("h_k", TRUE, <<"b">>)
    /\ e.wasparam = <<"a">>
    /\ e.stage = "merge"
    /\ GetModeParameter(World, "#a", "h_k") = <<"a">>

(***************************************************************************)
(* The MODE event of a pass                                                 *)
(***************************************************************************)
\* the allowed Changes of a pass's record, in order, as they were applied
RECURSIVE AllowedChanges(_)
AllowedChanges(log) ==
  IF log = <<>> THEN <<>>
  ELSE (IF Head(log).ma = MODEACTION_ALLOW
          THEN <<Change(Head(log).change.mh, Head(log).change.adding, Head(log).param)>>
          ELSE <<>>)
       \o AllowedChanges(Tail(log))

\* a Change of a channel flag that asks for the state the channel has
Reapplies(e) ==
  /\ call.chan # NULL
  /\ e.change.mh # NULL
  /\ Handler[e.change.mh].type_id = "MC_OTHER"
  /\ e.wasset = e.change.adding

\* this step is a ProcessSingle pass
IsPassStep == call' # NoCall /\ (call' # call \/ processed' # processed)

EventIsAllowedChanges ==
  call # NoCall =>
    /\ LastChangeList = AllowedChanges(passlog)
    /\ LastChangeList # <<>> => (sent # <<>> /\ sent[Len(sent)] = LastChangeList)
    /\ \A e \in Entries : Reapplies(e) => e.ma # MODEACTION_ALLOW
    /\ (\A e \in Entries : Reapplies(e)) => LastChangeList = <<>>

OneEventPerPass ==
  IsPassStep =>
    sent' = (IF call = NoCall THEN <<>> ELSE sent)
              \o (IF AllowedChanges(passlog') = <<>> THEN <<>>
                  ELSE <<AllowedChanges(passlog')>>)

(***************************************************************************)
(* C10: the MODE event of a pass lists exactly the Changes allowed in that  *)
(* pass, in ChangeList order, and is sent once, after the loop; a pass that *)
(* allows no Change (every Change re-applies the state the target has)      *)
(* sends no MODE event and calls no OnMode hook.                            *)
(***************************************************************************)
EventListsAllowed == []EventIsAllowedChanges /\ [][OneEventPerPass]_vars

\* +n +n with MaxModes 1: the first pass sent +n, the second allowed nothing and
\* sent nothing
SecondPassSilent ==
  /\ call # NoCall /\ call.list = <<Change("h_n", TRUE, <<>>), Change("h_n", TRUE, <<>>)>>
  /\ processed = 2
  /\ sent = <<<<Change("h_n", TRUE, <<>>)>>>>
  /\ Len(passlog) = 1 /\ Reapplies(passlog[1])
  /\ LastChangeList = <<>>

(***************************************************************************)
(* Watchers of a mode change                                                *)
(***************************************************************************)
\* the place of a registered watcher in the order of registration
Pos(mw) == CHOOSE i \in 1..Len(modewatchermap) : modewatchermap[i] = mw

\* the registered watchers of the Change's mode name and of the call's type
Watching(e) ==
  {mw \in {modewatchermap[i] : i \in 1..Len(modewatchermap)} :
     /\ Watcher[mw].mode = Handler[e.change.mh].name
     /\ Watcher[mw].m_type = (IF call.chan # NULL THEN MODETYPE_CHANNEL ELSE MODETYPE_USER)}

\* the watchers of seq are registered, distinct and in the order of registration
InOrder(seq) ==
  /\ \A i \in 1..Len(seq) : \E k \in 1..Len(modewatchermap) : modewatchermap[k] = seq[i]
  /\ \A i, j \in 1..Len(seq) : i < j => Pos(seq[i]) < Pos(seq[j])

\* the Change came as far as the watchers
ReachedWatchers(e) == e.stage \in {"watcher", "oper", "handler", "param", "allow"}

\* BeforeMode is called on the watching watchers in the order of registration, up
\* to and including the first that returns false
BeforeInOrder ==
  \A e \in Entries :
    IF ReachedWatchers(e)
      THEN /\ InOrder(e.before)
           /\ \A mw \in Watching(e) :
                (\E i \in 1..Len(e.before) : e.before[i] = mw)
                  <=> (\A other \in Watching(e) :
                         Pos(other) < Pos(mw) => BeforeMode(other, e.change))
           /\ \A i \in 1..Len(e.before) : e.before[i] \in Watching(e)
      ELSE e.before = <<>>

\* a watcher returning false ends the change: the handler and AfterMode do not run
FalseAborts ==
  \A e \in Entries :
    (\E i \in 1..Len(e.before) : ~BeforeMode(e.before[i], e.change))
      => e.ma = MODEACTION_DENY /\ ~e.ran /\ e.after = <<>> /\ e.isset = e.wasset

\* AfterMode is called when the handler allowed the change and only then, on all
\* the watching watchers in the order of registration
AfterWhenAllowed ==
  \A e \in Entries :
    IF ReachedTryMode(e) /\ e.ma = MODEACTION_ALLOW
      THEN /\ e.ran /\ InOrder(e.after)
           /\ {e.after[i] : i \in 1..Len(e.after)} = Watching(e)
      ELSE e.after = <<>>

(***************************************************************************)
(* C11: for a mode change the BeforeMode callbacks of the watchers          *)
(* registered for the mode's name and type are invoked in the order of      *)
(* registration; the first watcher returning false aborts the change, so    *)
(* that no later watcher, the handler and no AfterMode run for it; AfterMode*)
(* callbacks run only after the handler allowed the change, in the order of *)
(* registration.                                                            *)
(***************************************************************************)
WatchersInOrder == BeforeInOrder /\ FalseAborts /\ AfterWhenAllowed

\* w_ban, w_veto and w_veto2 registered in this order around w_user, +b asked:
\* w_ban and w_veto were asked, w_veto2 was not, and no ban was set
SecondWatcherVetoes ==
  /\ modewatchermap = <<"w_ban", "w_user", "w_veto", "w_veto2">>
  /\ \E e \in Entries :
       /\ e.change = Change("h_b", TRUE, <<"a">>)
       /\ e.before = <<"w_ban", "w_veto">>
       /\ e.ma = MODEACTION_DENY /\ ~e.ran /\ e.after = <<>>

(***************************************************************************)
(* Timers                                                                   *)
(***************************************************************************)
\* no Tick call came while a timer of the same trigger, added earlier, waited
NoneOvertaken == \A k \in 1..Len(fired) : fired[k].earlier = {}

\* the Tick calls of a TickTimers call come in the order of the triggers
TriggersAscend ==
  \A k, l \in 1..Len(fired) : k < l => fired[k].trigger <= fired[l].trigger

(***************************************************************************)
(* C12: if timer A is added before timer B and both have trigger time T,    *)
(* TickTimers at time T invokes A's Tick before B's Tick: timers due at the *)
(* same second fire in insertion order.                                     *)
(***************************************************************************)
SameSecondInsertionOrder == NoneOvertaken /\ TriggersAscend

\* B was made first, then A, then B was given a new interval that makes it due
\* with A: TickTimers at that second called A's Tick, then B's
AThenB ==
  /\ atstart = <<[key |-> 2, t |-> "A"], [key |-> 2, t |-> "B"]>>
  /\ ~tick.on /\ tick.TIME = 2
  /\ Len(fired) = 2
  /\ fired[1].t = "A" /\ fired[2].t = "B"
  /\ fired[1].trigger = 2 /\ fired[2].trigger = 2

\* the timers TickTimers found due
Due == {atstart[k].t : k \in {k \in 1..Len(atstart) : atstart[k].key <= tick.TIME}}

\* Tick is called on no timer whose trigger is after TIME
NoneEarly == \A k \in 1..Len(fired) : fired[k].trigger <= fired[k].TIME

\* when TickTimers has returned, Tick was called on every timer it found due and
\* the timers it found not due are scheduled as they were
AllDueFired ==
  (~tick.on /\ tick.i > 0) =>
    /\ \A t \in Due : \E k \in 1..Len(fired) : fired[k].t = t
    /\ \A k \in 1..Len(atstart) :
         atstart[k].key > tick.TIME =>
           \E l \in 1..Len(Timers) : Timers[l] = atstart[k]

\* a step of the loop of TickTimers
IsTickTurn == tick.on /\ Len(fired') = Len(fired) + 1

\* the timer Tick is called on is taken out of the map, and put back, to fire at
\* TIME + interval, when Tick returned true and the timer repeats, and only then
PutBackWhenRepeating ==
  IsTickTurn =>
    LET e == fired'[Len(fired')]
    IN  /\ IsScheduled(Timers, e.t)
        /\ Len(Timers') = (IF e.ret /\ timerobj[e.t].repeat THEN Len(Timers) ELSE Len(Timers) - 1)
        /\ IsScheduled(Timers', e.t) <=> (e.ret /\ timerobj[e.t].repeat)
        /\ IsScheduled(Timers', e.t) =>
             /\ timerobj'[e.t].trigger = tick.TIME + timerobj[e.t].secs
             /\ \E l \in 1..Len(Timers') :
                  Timers'[l] = [key |-> tick.TIME + timerobj[e.t].secs, t |-> e.t]

(***************************************************************************)
(* C13: TickTimers(now) removes and invokes every scheduled timer whose     *)
(* trigger is <= now and never invokes a timer whose trigger is > now; a    *)
(* fired timer is re-inserted, with trigger now + interval, only when its   *)
(* callback returned true and the timer is repeating, otherwise it is no    *)
(* longer scheduled.                                                        *)
(***************************************************************************)
TickFiresDue == [](NoneEarly /\ AllDueFired) /\ [][PutBackWhenRepeating]_vars

\* at second 2 TickTimers found A (repeating, every second) and B (one-shot) due
\* and C not: A is scheduled again for second 3, B is gone, C waits
RepeatingPutBack ==
  /\ ~tick.on /\ tick.TIME = 2
  /\ Due = {"A", "B"}
  /\ \E k \in 1..Len(fired) : fired[k].t = "A" /\ fired[k].ret
  /\ \E k \in 1..Len(fired) : fired[k].t = "B" /\ fired[k].ret
  /\ IsScheduled(Timers, "A") /\ timerobj["A"].trigger = 3
  /\ ~IsScheduled(Timers, "B")
  /\ IsScheduled(Timers, "C") /\ timerobj["C"].trigger > 2

(***************************************************************************)
(* X-line expiry                                                            *)
(***************************************************************************)
\* the lines of all kinds
AllLines(store) == UNION {{store[k][i] : i \in 1..Len(store[k])} : k \in Kinds}

\* the line has a duration and its time is over
LineDue(line) == line.duration > 0 /\ line.set_time + line.duration <= Time

\* when the expiry run is over no line of any kind is due, and the lines
\* DisplayExpiry was called on were due and are in no set
ExpiryLeavesNoDue ==
  xreply.result = "expiry" =>
    /\ \A line \in AllLines(xlines) : ~LineDue(line)
    /\ \A i \in 1..Len(displayed) : LineDue(displayed[i]) /\ displayed[i] \notin AllLines(xlines)

\* an expiry run takes no permanent line out, and DisplayExpiry is called on each
\* line it takes out
ExpiryDisplays ==
  xreply'.result = "expiry" =>
    /\ \A line \in AllLines(xlines) : line.duration = 0 => line \in AllLines(xlines')
    /\ xlines' # xlines =>
         AllLines(xlines) \ AllLines(xlines') = {displayed'[i] : i \in 1..Len(displayed')}

\* a command that says it added a timed line has put a line into the set that is
\* due duration seconds from now, with the duration given
TimedLineStored ==
  /\ xreply'.wrote \in {<<"added timed SVSHOLD">>, <<"added timed E-line">>} =>
       \E k \in Kinds :
         /\ xlines'[k] # <<>>
         /\ xlines'[k][Len(xlines'[k])].duration \in {Duration("5"), Duration("5s")}
         /\ xlines'[k][Len(xlines'[k])].set_time = Time'
         /\ xlines'[k][Len(xlines'[k])].expiry = Time' + 5
  /\ xreply'.wrote \in {<<"added permanent SVSHOLD">>, <<"added permanent E-line">>} =>
       \E k \in Kinds :
         /\ xlines'[k] # <<>>
         /\ xlines'[k][Len(xlines'[k])].duration = 0

(***************************************************************************)
(* C14: an X-line added with a duration of 5 seconds at time t is no longer *)
(* in its kind's set once expiry has run at time t+6 (and DisplayExpiry was *)
(* called for it), while an X-line added with duration 0 is never removed   *)
(* by expiry, however far the clock advances.                               *)
(***************************************************************************)
FiveSecondLineExpires == []ExpiryLeavesNoDue /\ [][ExpiryDisplays /\ TimedLineStored]_vars

\* SVSHOLD a 5 reason and ELINE *@h 0 were given at second 0; the expiry run at second 6
\* took the SVSHOLD out and called DisplayExpiry on it, the E-line is in its set
GoneAfterSix ==
  /\ Time = 6
  /\ xreply = [result |-> "expiry", wrote |-> <<"Removing expired SVSHOLD">>]
  /\ displayed = <<XLine("SVSHOLD", 0, 5, "services", "a") @@ [reason |-> "reason"]>>
  /\ xlines["SVSHOLD"] = <<>>
  /\ xlines["E"] = <<XLine("E", 0, 0, "oper", "*@h")>>


(***************************************************************************)
(* The configuration parser: characters and entity references (Parser::kv)  *)
(***************************************************************************)
\* the text of a configuration file is a sequence of character codes
Ascii ==
  [c \in {"CR", " ", "\"", "#", "&", "-", ".", "/", "0", "1", "2", "4", "5", "6",
          ";", "A", "G", "X", "Y", "_", "a", "b", "c", "d", "e", "f", "g", "h", "i", "k",
          "l", "m", "n", "o", "p", "q", "r", "s", "t", "u", "v", "w", "x", "y"} |->
     CASE c = "CR" -> 13 [] c = " " -> 32 [] c = "\"" -> 34 [] c = "#" -> 35
       [] c = "&" -> 38 [] c = "-" -> 45 [] c = "." -> 46 [] c = "/" -> 47
       [] c = "0" -> 48 [] c = "1" -> 49 [] c = "2" -> 50 [] c = "4" -> 52
       [] c = "5" -> 53 [] c = "6" -> 54 [] c = ";" -> 59 [] c = "A" -> 65 [] c = "G" -> 71
       [] c = "X" -> 88 [] c = "Y" -> 89 [] c = "_" -> 95 [] c = "a" -> 97
       [] c = "b" -> 98 [] c = "c" -> 99 [] c = "d" -> 100 [] c = "e" -> 101
       [] c = "f" -> 102 [] c = "g" -> 103 [] c = "h" -> 104 [] c = "i" -> 105 [] c = "k" -> 107
       [] c = "l" -> 108 [] c = "m" -> 109
       [] c = "n" -> 110 [] c = "o" -> 111 [] c = "p" -> 112 [] c = "q" -> 113
       [] c = "r" -> 114 [] c = "s" -> 115 [] c = "t" -> 116 [] c = "u" -> 117
       [] c = "v" -> 118 [] c = "w" -> 119 [] c = "x" -> 120
       [] c = "y" -> 121]

\* the text spelt by a sequence of characters
Text(chars) == [i \in DOMAIN chars |-> Ascii[chars[i]]]

isdigit(ch) == ch >= 48 /\ ch <= 57
isupper(ch) == ch >= 65 /\ ch <= 90
islower(ch) == ch >= 97 /\ ch <= 122
isalnum(ch) == isdigit(ch) \/ isupper(ch) \/ islower(ch)
isspace(ch) == ch = 32 \/ (ch >= 9 /\ ch <= 13)
tolower(ch) == IF isupper(ch) THEN ch + 32 ELSE ch

\* Parser::wordchar
wordchar(ch) == isalnum(ch) \/ ch = Ascii["-"] \/ ch = Ascii["."] \/ ch = Ascii["_"]

\* stdalgo::string::equalsci
equalsci(s1, s2) ==
  /\ Len(s1) = Len(s2)
  /\ \A i \in 1..Len(s1) : tolower(s1[i]) = tolower(s2[i])

\* strtoul: the value of a digit in a base, -1 when the character is no digit
\* of the base
DigitValue(ch, base) ==
  LET v == IF isdigit(ch) THEN ch - 48
           ELSE IF islower(ch) THEN ch - 97 + 10
           ELSE IF isupper(ch) THEN ch - 65 + 10
           ELSE 36
  IN IF v < base THEN v ELSE -1

\* kv compares strtoul's result with 255 only: every result above 255 is
\* reported as TooLarge, so that no number outgrows the checker's integers
TooLarge == 255 + 1
Clipped(n) == IF n > 255 THEN TooLarge ELSE n

\* strtoul's digit loop from index i: the value and the index of the first
\* character that is not a digit of the base
RECURSIVE StrtoulDigits(_, _, _, _)
StrtoulDigits(s, i, base, acc) ==
  IF i <= Len(s) /\ DigitValue(s[i], base) >= 0
  THEN StrtoulDigits(s, i + 1, base, Clipped(acc * base + DigitValue(s[i], base)))
  ELSE [value |-> acc, endptr |-> i]

RECURSIVE SkipSpace(_, _)
SkipSpace(s, i) == IF i <= Len(s) /\ isspace(s[i]) THEN SkipSpace(s, i + 1) ELSE i

\* strtoul(s, &endptr, base) for base 10 and 16: white space, a sign, for base
\* 16 a 0x or 0X that a hex digit follows, then the digits; with no digit at
\* all the value is 0 and endptr is s; a minus sign negates the value as an
\* unsigned long, which leaves 0 alone and makes any other value huge
Strtoul(s, base) ==
  LET b == SkipSpace(s, 1)
      signed == b <= Len(s) /\ s[b] \in {Ascii["-"], 43}
      d == IF signed THEN b + 1 ELSE b
      prefixed == /\ base = 16
                  /\ d + 2 <= Len(s)
                  /\ s[d] = Ascii["0"]
                  /\ tolower(s[d + 1]) = Ascii["x"]
                  /\ DigitValue(s[d + 2], 16) >= 0
      from == IF prefixed THEN d + 2 ELSE d
      r == StrtoulDigits(s, from, base, 0)
  IN IF r.endptr = from
     THEN [value |-> 0, endptr |-> 1]
     ELSE [value |-> IF signed /\ s[b] = Ascii["-"] /\ r.value # 0
                     THEN TooLarge ELSE r.value,
           endptr |-> r.endptr]

\* ParseFlags, a set of flags for the bit mask
FLAG_NO_EXEC == "FLAG_NO_EXEC"
FLAG_NO_INC == "FLAG_NO_INC"
FLAG_NO_ENV == "FLAG_NO_ENV"
FLAG_MISSING_OKAY == "FLAG_MISSING_OKAY"
ParseFlags == {FLAG_NO_EXEC, FLAG_NO_INC, FLAG_NO_ENV, FLAG_MISSING_OKAY}

\* the process environment: XYZ is set, nothing else is
EnvName == Text(<<"X">>)
EnvValue == Text(<<"v">>)
getenv(name) == IF name = EnvName THEN <<EnvValue>> ELSE <<>>

\* the variables the ParseStack starts with
AmpName == Text(<<"a", "m", "p">>)
QuotName == Text(<<"q", "u", "o", "t">>)
InitialVars ==
  [n \in {AmpName, QuotName} |-> IF n = AmpName THEN Text(<<"&">>) ELSE Text(<<"\"">>)]

\* stack.vars[varname] = value
SetVar(cvars, varname, value) ==
  [n \in DOMAIN cvars \cup {varname} |-> IF n = varname THEN value ELSE cvars[n]]

\* what an expansion gives: the text, or the exception's reason; noted tells that
\* kv wrote its own line to errstr before it threw
Expanded(text) == [ok |-> TRUE, value |-> text, reason |-> "", noted |-> FALSE]
Thrown(reason) == [ok |-> FALSE, value |-> <<>>, reason |-> reason, noted |-> FALSE]
ThrownNoted(reason) == [ok |-> FALSE, value |-> <<>>, reason |-> reason, noted |-> TRUE]

EnvPrefix == Text(<<"e", "n", "v", ".">>)

\* kv, lines 199-212: the name of the entity that starts at index i of the
\* value's text, up to its ';'
RECURSIVE EntityName(_, _, _)
EntityName(text, i, varname) ==
  IF i > Len(text)
  THEN [ok |-> FALSE, varname |-> varname, next |-> i]
  ELSE IF wordchar(text[i]) \/ (varname = <<>> /\ text[i] = Ascii["#"])
  THEN EntityName(text, i + 1, Append(varname, text[i]))
  ELSE IF text[i] = Ascii[";"]
  THEN [ok |-> TRUE, varname |-> varname, next |-> i + 1]
  ELSE [ok |-> FALSE, varname |-> varname, next |-> i]

\* the numeric reference that treats a number above 255 as its low byte
NumericReferenceWrapping(varname) ==
  LET hex == varname[2] = Ascii["x"]
      digits == SubSeq(varname, IF hex THEN 3 ELSE 2, Len(varname))
      r == Strtoul(digits, IF hex THEN 16 ELSE 10)
  IN IF r.endptr <= Len(digits)
     THEN Thrown("Invalid numeric character reference")
     ELSE Expanded(<<r.value % 256>>)

\* kv, lines 219-228: a numeric character reference
NumericReference(varname) ==
  LET hex == varname[2] = Ascii["x"]
      digits == SubSeq(varname, IF hex THEN 3 ELSE 2, Len(varname))
      r == Strtoul(digits, IF hex THEN 16 ELSE 10)
  IN IF r.endptr <= Len(digits) \/ r.value > 255
     THEN Thrown("Invalid numeric character reference")
     ELSE Expanded(<<r.value>>)

\* the environment reference that does not look at the noenv flag
EnvReferenceUnrestricted(varname, flags) ==
  LET envstr == getenv(SubSeq(varname, 5, Len(varname)))
  IN IF envstr = <<>>
     THEN Thrown("Undefined XML environment entity reference")
     ELSE Expanded(envstr[1])

\* kv, lines 232-239: an environment reference
EnvReference(varname, flags) ==
  IF FLAG_NO_ENV \in flags
  THEN Thrown("XML environment entity reference in file included with noenv")
  ELSE LET envstr == getenv(SubSeq(varname, 5, Len(varname)))
       IN IF envstr = <<>>
          THEN Thrown("Undefined XML environment entity reference")
          ELSE Expanded(envstr[1])

\* kv, lines 243-246: a reference to a variable
VarReference(varname, cvars) ==
  IF varname \notin DOMAIN cvars
  THEN Thrown("Undefined XML entity reference")
  ELSE Expanded(cvars[varname])

\* kv, lines 213-247: what the entity of a name expands to
Entity(varname, flags, cvars) ==
  IF varname = <<>>
  THEN Thrown("Empty XML entity reference")
  ELSE IF /\ varname[1] = Ascii["#"]
          /\ (Len(varname) = 1 \/ (Len(varname) = 2 /\ varname[2] = Ascii["x"]))
  THEN Thrown("Empty numeric character reference")
  ELSE IF varname[1] = Ascii["#"]
  THEN NumericReference(varname)
  ELSE IF Len(varname) >= 4 /\ SubSeq(varname, 1, 4) = EnvPrefix
  THEN EnvReference(varname, flags)
  ELSE VarReference(varname, cvars)

\* kv, lines 193-253: the value read from index i of the text that follows the
\* opening quote, value being what was read before i
RECURSIVE KvValue(_, _, _, _, _)
KvValue(text, i, value, flags, cvars) ==
  IF i > Len(text)
  THEN Thrown("Unexpected end-of-file")
  ELSE IF text[i] = Ascii["&"]
  THEN LET name == EntityName(text, i + 1, <<>>)
           ent == Entity(name.varname, flags, cvars)
       IN IF ~name.ok
          THEN IF name.next > Len(text)
               THEN Thrown("Unexpected end-of-file")
               ELSE ThrownNoted("Parse error")
          ELSE IF ~ent.ok
          THEN ent
          ELSE KvValue(text, name.next, value \o ent.value, flags, cvars)
  ELSE IF text[i] = Ascii["\""]
  THEN Expanded(value)
  ELSE IF text[i] # Ascii["CR"]
  THEN KvValue(text, i + 1, Append(value, text[i]), flags, cvars)
  ELSE KvValue(text, i + 1, value, flags, cvars)

\* the value of an attribute written as raw between its quotes
ReadValue(raw, flags, cvars) == KvValue(Append(raw, Ascii["\""]), 1, <<>>, flags, cvars)


(***************************************************************************)
(* The configuration parser: tags, includes and the stack of files          *)
(***************************************************************************)
\* a tag as the file spells it: its name and its key="value" pairs, each
\* value as written between the quotes
Item(key, raw) == [key |-> key, raw |-> raw]
Tag(name, items) == [name |-> name, items |-> items]

\* stdalgo::isin
isin(seq, x) == \E i \in 1..Len(seq) : seq[i] = x

\* ConfigTag::Items::insert: the keys of a tag differ, whatever their case
HasKey(items, key) == \E i \in 1..Len(items) : equalsci(items[i].key, key)

\* dotag's loop of kv calls over the pairs of a tag, from pair i on, read being
\* the pairs read so far
RECURSIVE KvLoop(_, _, _, _, _)
KvLoop(items, i, read, flags, cvars) ==
  IF i > Len(items)
  THEN Expanded(read)
  ELSE LET v == ReadValue(items[i].raw, flags, cvars)
       IN IF ~v.ok
          THEN v
          ELSE IF HasKey(read, items[i].key)
          THEN Thrown("Duplicate key")
          ELSE KvLoop(items, i + 1, Append(read, [key |-> items[i].key, value |-> v.value]),
                      flags, cvars)

\* ConfigTag::readString: the value of the first pair with the key, its
\* linefeeds turned to spaces
readString(items, key) ==
  IF ~HasKey(items, key)
  THEN [found |-> FALSE, value |-> <<>>]
  ELSE LET i == CHOOSE j \in 1..Len(items) :
                  /\ equalsci(items[j].key, key)
                  /\ \A k \in 1..(j - 1) : ~equalsci(items[k].key, key)
           v == items[i].value
       IN [found |-> TRUE, value |-> [k \in DOMAIN v |-> IF v[k] = 10 THEN 32 ELSE v[k]]]

\* ConfigTag::getString with the default ""
getString(items, key) == readString(items, key).value

\* ConfigTag::getBool
getBool(items, key, def) ==
  LET r == readString(items, key)
      IsOneOf(words) == \E w \in words : equalsci(r.value, Text(w))
  IN IF ~r.found \/ r.value = <<>>
     THEN def
     ELSE IF IsOneOf({<<"y", "e", "s">>, <<"t", "r", "u", "e">>, <<"o", "n">>})
     THEN TRUE
     ELSE IF IsOneOf({<<"n", "o">>, <<"f", "a", "l", "s", "e">>, <<"o", "f", "f">>})
     THEN FALSE
     ELSE def

\* the keys of the include tag
KeyFile == Text(<<"f", "i", "l", "e">>)
KeyDirectory == Text(<<"d", "i", "r">>) \o Text(<<"e", "c", "t", "o", "r", "y">>)
KeyExecutable == Text(<<"e", "x", "e", "c">>) \o Text(<<"u", "t", "a", "b", "l", "e">>)
KeyMandatoryTag == Text(<<"m", "a", "n", "d", "a", "t", "o", "r", "y">>) \o Text(<<"t", "a", "g">>)
KeyNoInclude == Text(<<"n", "o", "i", "n", "c", "l", "u", "d", "e">>)
KeyNoExec == Text(<<"n", "o", "e", "x", "e", "c">>)
KeyNoEnv == Text(<<"n", "o", "e", "n", "v">>)
KeyMissingOkay == Text(<<"m", "i", "s", "s", "i", "n", "g">>) \o Text(<<"o", "k", "a", "y">>)
KeyName == Text(<<"n", "a", "m", "e">>)
KeyValue == Text(<<"v", "a", "l", "u", "e">>)
NameInclude == Text(<<"i", "n", "c", "l", "u", "d", "e">>)
NameDefine == Text(<<"d", "e", "f", "i", "n", "e">>)
NameFiles == Text(<<"f", "i", "l", "e", "s">>)
NameExecFiles == Text(<<"e", "x", "e", "c">>) \o NameFiles

\* ConfigPaths::PrependConfig: a relative name is a name in the configuration
\* directory
ConfigDir == Text(<<"c">>)
PrependConfig(name) ==
  IF name # <<>> /\ name[1] = Ascii["/"] THEN name ELSE ConfigDir \o Text(<<"/">>) \o name

\* InspIRCd::Match(path, "*.conf")
DotConf == Text(<<".", "c", "o", "n", "f">>)
MatchConf(path) ==
  /\ Len(path) >= Len(DotConf)
  /\ equalsci(SubSeq(path, Len(path) - Len(DotConf) + 1, Len(path)), DotConf)

\* fopen(path, "r") or popen(path, "r") gives a stream
CanOpen(fs, path, isexec) ==
  path \in DOMAIN (IF isexec THEN fs.programs ELSE fs.files)

\* the tags of the stream
TagsOf(fs, path, isexec) == IF isexec THEN fs.programs[path] ELSE fs.files[path]

\* an include under way in DoInclude: the flags and the mandatory tag of its
\* ParseFile calls and the paths it has yet to parse
NoInc == [on |-> FALSE, flags |-> {}, mandatorytag |-> <<>>, isexec |-> FALSE, todo |-> <<>>]
Inc(flags, mandatorytag, isexec, todo) ==
  [on |-> TRUE, flags |-> flags, mandatorytag |-> mandatorytag, isexec |-> isexec,
   todo |-> todo]

\* Parser's constructor; pos is the tag of the file that the parser reads next
\* or is in
Parser(path, flags, mandatory_tag, isexec) ==
  [path |-> path, flags |-> flags, pos |-> 1, mandatory_tag |-> mandatory_tag,
   isexec |-> isexec, inc |-> NoInc]

\* the ParseStack and the calls on it: m.parsers are the Parsers of the
\* ParseFile calls under way, the innermost last
Machine == [reading |-> reading, parsers |-> parsers, errstr |-> errstr, parsed |-> parsed]

\* an exception thrown in the innermost ParseFile call's parser, or in a call
\* it makes: outer_parse catches it, writes the reason to errstr and returns
\* false, ParseFile takes the path off reading and returns false, at which the
\* DoInclude that called it throws "Included" in its own parser, and so on up
\* to the outermost call; thrown with no parser at all, the exception is the
\* reader's
RECURSIVE Caught(_, _)
Caught(m, reason) ==
  LET k == Len(m.parsers)
      logged == [m EXCEPT !.errstr = Append(@, reason)]
      left == [logged EXCEPT !.parsers = SubSeq(@, 1, k - 1),
                             !.reading = SubSeq(@, 1, Len(@) - 1)]
  IN IF k = 0
     THEN [logged EXCEPT !.parsed = "failed"]
     ELSE IF k = 1
     THEN [left EXCEPT !.parsed = "failed"]
     ELSE Caught(left, "Included")

\* a ParseFile call returned true to the DoInclude of the innermost parser,
\* which goes on with the next path; after the last one dotag is done with the
\* tag; returned to the reader, the configuration is read
Returned(m) ==
  LET k == Len(m.parsers)
      p == m.parsers[k]
      rest == Tail(p.inc.todo)
  IN IF k = 0
     THEN [m EXCEPT !.parsed = "ok"]
     ELSE IF rest = <<>>
     THEN [m EXCEPT !.parsers[k] = [p EXCEPT !.inc = NoInc, !.pos = @ + 1]]
     ELSE [m EXCEPT !.parsers[k] = [p EXCEPT !.inc.todo = rest]]

LoopedInclusion == "is included recursively (looped inclusion)"

\* the ParseFile that does not look at the files being read
ParseFileUnguarded(m, fs, path, flags, mandatory_tag, isexec) ==
  IF ~CanOpen(fs, path, isexec)
  THEN IF FLAG_MISSING_OKAY \in flags
       THEN Returned(m)
       ELSE Caught(m, "Could not read")
  ELSE [m EXCEPT !.reading = Append(@, path),
                 !.parsers = Append(@, Parser(path, flags, mandatory_tag, isexec))]

\* ParseStack::ParseFile up to the call of outer_parse
ParseFile(m, fs, path, flags, mandatory_tag, isexec) ==
  IF isin(m.reading, path)
  THEN Caught(m, LoopedInclusion)
  ELSE IF ~CanOpen(fs, path, isexec)
  THEN IF FLAG_MISSING_OKAY \in flags
       THEN Returned(m)
       ELSE Caught(m, "Could not read")
  ELSE [m EXCEPT !.reading = Append(@, path),
                 !.parsers = Append(@, Parser(path, flags, mandatory_tag, isexec))]


\* flags |= flag when the tag's key is true
WithFlag(flags, items, key, def, flag) ==
  IF getBool(items, key, def) THEN flags \cup {flag} ELSE flags

\* the three restrictions an include tag may add, lines 374-381, 393-398 and
\* 426-431; an executable include is noexec and noenv unless the tag says no
Restricted(flags, items, def) ==
  WithFlag(WithFlag(WithFlag(flags, items, KeyNoInclude, FALSE, FLAG_NO_INC),
                    items, KeyNoExec, def, FLAG_NO_EXEC),
           items, KeyNoEnv, def, FLAG_NO_ENV)

\* the flags of an included file when a tag's "no" lifts a restriction
FileIncludeFlagsLifting(flags, items) ==
  LET lifted == {f \in {FLAG_NO_EXEC, FLAG_NO_ENV} :
                   /\ readString(items, IF f = FLAG_NO_EXEC THEN KeyNoExec ELSE KeyNoEnv).found
                   /\ ~getBool(items, IF f = FLAG_NO_EXEC THEN KeyNoExec ELSE KeyNoEnv, TRUE)}
      restricted == Restricted(flags, items, FALSE) \ lifted
  IN IF getBool(items, KeyMissingOkay, FALSE)
     THEN restricted \cup {FLAG_MISSING_OKAY}
     ELSE restricted \ {FLAG_MISSING_OKAY}

\* DoInclude, lines 374-386: the flags of a file included by <include file>
FileIncludeFlags(flags, items) ==
  LET restricted == Restricted(flags, items, FALSE)
  IN IF getBool(items, KeyMissingOkay, FALSE)
     THEN restricted \cup {FLAG_MISSING_OKAY}
     ELSE restricted \ {FLAG_MISSING_OKAY}

\* DoInclude, lines 403-410: the entries of a directory that are parsed, in the
\* directory iterator's order
ConfFilesIn(fs, includedir) ==
  LET Parsed(path) == path \in DOMAIN fs.files /\ MatchConf(path)
  IN SelectSeq(fs.dirs[includedir], Parsed)

\* DoInclude enters its ParseFile calls, or is done when there is none to make
Including(m, inc) ==
  LET k == Len(m.parsers)
  IN IF inc.todo = <<>>
     THEN [m EXCEPT !.parsers[k].pos = @ + 1]
     ELSE [m EXCEPT !.parsers[k].inc = inc]

\* ParseStack::DoInclude up to its first ParseFile call, called by the
\* innermost parser of m for a tag with these key and value pairs
DoInclude(m, fs, items, flags) ==
  LET mandatorytag == readString(items, KeyMandatoryTag).value
      file == readString(items, KeyFile)
      directory == readString(items, KeyDirectory)
      executable == readString(items, KeyExecutable)
      includedir == PrependConfig(directory.value)
  IN IF FLAG_NO_INC \in flags
     THEN Caught(m, "Invalid <include> tag in file included with noinclude")
     ELSE IF file.found
     THEN Including(m, Inc(FileIncludeFlags(flags, items), mandatorytag, FALSE,
                           <<PrependConfig(file.value)>>))
     ELSE IF directory.found
     THEN IF includedir \notin DOMAIN fs.dirs
          THEN Caught(m, "Unable to read directory for include")
          ELSE Including(m, Inc(Restricted(flags, items, FALSE), mandatorytag, FALSE,
                                ConfFilesIn(fs, includedir)))
     ELSE IF executable.found
     THEN IF FLAG_NO_EXEC \in flags
          THEN Caught(m, "Invalid <include:executable> tag in file included with noexec")
          ELSE Including(m, Inc(Restricted(flags, items, TRUE), mandatorytag, TRUE,
                                <<executable.value>>))
     ELSE Including(m, Inc({}, <<>>, FALSE, <<>>))

\* dotag's loop of DoReadFile calls over the pairs of a <files> or <execfiles>
\* tag: the cache with the files read, or the exception
RECURSIVE DoReadFiles(_, _, _, _, _, _)
DoReadFiles(items, i, cache, fs, flags, exec) ==
  LET name == items[i].value
      path == PrependConfig(name)
      key == items[i].key
  IN IF i > Len(items)
     THEN Expanded(cache)
     ELSE IF FLAG_NO_INC \in flags
     THEN Thrown("Invalid <files> tag in file included with noinclude")
     ELSE IF exec /\ FLAG_NO_EXEC \in flags
     THEN Thrown("Invalid <execfiles> tag in file included with noexec")
     ELSE IF ~CanOpen(fs, IF exec THEN name ELSE path, exec)
     THEN Thrown("Could not read")
     ELSE DoReadFiles(items, i + 1,
                      [c \in DOMAIN cache \cup {key} |->
                         IF c = key THEN (IF exec THEN name ELSE path) ELSE cache[c]],
                      fs, flags, exec)

\* the calls go on as m says
Become(m) ==
  /\ reading' = m.reading
  /\ parsers' = m.parsers
  /\ errstr' = m.errstr
  /\ parsed' = m.parsed

Top == parsers[Len(parsers)]

\* ServerConfig::Read: a new ParseStack parses the server's configuration file
ConfigFileName == PrependConfig(Text(<<"a">>))
ServerConfigRead ==
  /\ parsed # "running"
  /\ stackvars' = InitialVars
  /\ output' = <<>>
  /\ FilesOutput' = <<>>
  /\ Become(ParseFile([reading |-> <<>>, parsers |-> <<>>, errstr |-> <<>>,
                       parsed |-> "running"],
                      conffiles, ConfigFileName, {}, <<>>, FALSE))
  /\ UNCHANGED <<conffiles, nonparservars>>

\* Parser::dotag after its loop of kv calls, kv being what the loop came to
TagRead(tag, kv) ==
  LET k == Len(parsers)
      found == [Machine EXCEPT !.parsers[k].mandatory_tag =
                                  IF tag.name = @ THEN <<>> ELSE @]
      done == [Machine EXCEPT !.parsers[k].mandatory_tag =
                                 IF tag.name = @ THEN <<>> ELSE @,
                              !.parsers[k].pos = @ + 1]
      files == DoReadFiles(kv.value, 1, FilesOutput, conffiles, Top.flags,
                           equalsci(tag.name, NameExecFiles))
      varname == getString(kv.value, KeyName)
  IN IF ~kv.ok
     THEN /\ Become(Caught(IF kv.noted
                           THEN [Machine EXCEPT !.errstr =
                                    Append(@, "Invalid XML entity name")]
                           ELSE Machine,
                           kv.reason))
          /\ UNCHANGED <<stackvars, output, FilesOutput>>
     ELSE IF equalsci(tag.name, NameInclude)
     THEN /\ Become(DoInclude(found, conffiles, kv.value, Top.flags))
          /\ UNCHANGED <<stackvars, output, FilesOutput>>
     ELSE IF equalsci(tag.name, NameFiles) \/ equalsci(tag.name, NameExecFiles)
     THEN /\ IF files.ok
             THEN FilesOutput' = files.value /\ Become(done)
             ELSE UNCHANGED FilesOutput /\ Become(Caught(found, files.reason))
          /\ UNCHANGED <<stackvars, output>>
     ELSE IF equalsci(tag.name, NameDefine)
     THEN /\ IF varname = <<>>
             THEN /\ Become(Caught(found, "Variable definition must include variable name"))
                  /\ UNCHANGED stackvars
             ELSE /\ stackvars' = SetVar(stackvars, varname, getString(kv.value, KeyValue))
                  /\ Become(done)
          /\ UNCHANGED <<output, FilesOutput>>
     ELSE /\ output' = Append(output, [name |-> tag.name, items |-> kv.value])
          /\ Become(done)
          /\ UNCHANGED <<stackvars, FilesOutput>>

\* Parser::outer_parse reads a '<': Parser::dotag, up to DoInclude's first
\* ParseFile call when the tag is an include
ReadTag(tag) == TagRead(tag, KvLoop(tag.items, 1, <<>>, Top.flags, stackvars))
dotag ==
  /\ parsed = "running"
  /\ parsers # <<>>
  /\ ~Top.inc.on
  /\ Top.pos <= Len(TagsOf(conffiles, Top.path, Top.isexec))
  /\ ReadTag(TagsOf(conffiles, Top.path, Top.isexec)[Top.pos])
  /\ UNCHANGED <<conffiles, nonparservars>>

\* DoInclude calls ParseFile for the next path of its include
IncludeParseFile ==
  /\ parsed = "running"
  /\ parsers # <<>>
  /\ Top.inc.on
  /\ Become(ParseFile(Machine, conffiles, Head(Top.inc.todo), Top.inc.flags,
                      Top.inc.mandatorytag, Top.inc.isexec))
  /\ UNCHANGED <<conffiles, stackvars, output, FilesOutput, nonparservars>>

\* Parser::outer_parse reads the end of the file, and ParseFile returns
outer_parse_EOF ==
  /\ parsed = "running"
  /\ parsers # <<>>
  /\ ~Top.inc.on
  /\ Top.pos > Len(TagsOf(conffiles, Top.path, Top.isexec))
  /\ IF Top.mandatory_tag # <<>>
     THEN Become(Caught(Machine, "Mandatory tag not found"))
     ELSE Become(Returned([Machine EXCEPT
                             !.parsers = SubSeq(@, 1, Len(@) - 1),
                             !.reading = SubSeq(@, 1, Len(@) - 1)]))
  /\ UNCHANGED <<conffiles, stackvars, output, FilesOutput, nonparservars>>

NextParser == ServerConfigRead \/ dotag \/ IncludeParseFile \/ outer_parse_EOF


(***************************************************************************)
(* The configurations the parser is run on                                  *)
(***************************************************************************)
\* the names an include tag gives: the server's own file a, the files b and
\* d/e.conf, a file m that does not exist, the directory d and the program p
FileA == Text(<<"a">>)
FileB == Text(<<"b">>)
FileM == Text(<<"m">>)
DirD == Text(<<"d">>)
FileE == Text(<<"d", "/", "e">>) \o DotConf
FileN == Text(<<"d", "/", "n">>)
ProgramP == Text(<<"p">>)
Yes == Text(<<"y", "e", "s">>)
No == Text(<<"n", "o">>)
NameT == Text(<<"t">>)
KeyK == Text(<<"k">>)
NameFoo == Text(<<"f", "o", "o">>)
NameBar == Text(<<"b", "a", "r">>)

\* what an include tag may say besides its target
IncludeOptions ==
  {<<>>,
   <<Item(KeyNoInclude, Yes)>>,
   <<Item(KeyNoExec, Yes)>>,
   <<Item(KeyNoEnv, Yes)>>,
   <<Item(KeyMissingOkay, Yes)>>,
   <<Item(KeyNoEnv, Yes), Item(KeyMissingOkay, Yes)>>,
   <<Item(KeyNoExec, No), Item(KeyNoEnv, No), Item(KeyMissingOkay, No)>>,
   <<Item(KeyMandatoryTag, NameT)>>}

IncludeTags(key, targets, options) ==
  {Tag(NameInclude, <<Item(key, t)>> \o o) : t \in targets, o \in options}

\* a tag whose value refers to the environment
EnvTag == Tag(NameT, <<Item(KeyK, Text(<<"&">>) \o EnvPrefix \o EnvName \o Text(<<";">>))>>)

FileIncludes == IncludeTags(KeyFile, {FileA, FileB, FileM, FileE}, IncludeOptions)
OtherIncludes ==
  IncludeTags(KeyDirectory, {DirD}, {<<>>, <<Item(KeyNoEnv, Yes)>>})
    \cup IncludeTags(KeyExecutable, {ProgramP},
                     {<<>>, <<Item(KeyNoExec, No), Item(KeyNoEnv, No)>>})

\* what the included files and the program may hold
IncludedTexts ==
  {<<>>, <<EnvTag>>}
    \cup {<<t>> : t \in IncludeTags(KeyFile, {FileA, FileM}, {<<>>})}
    \cup {<<t>> : t \in IncludeTags(KeyExecutable, {ProgramP}, {<<>>})}

\* the file systems whose files include one another
IncludeSystems ==
  {[files |-> [path \in {PrependConfig(FileA), PrependConfig(FileB), PrependConfig(FileE)} |->
                 IF path = PrependConfig(FileA) THEN a
                 ELSE IF path = PrependConfig(FileB) THEN b ELSE e],
    dirs |-> [dir \in {PrependConfig(DirD)} |-> listing],
    programs |-> [cmd \in {ProgramP} |-> p]] :
     a \in {<<t>> : t \in FileIncludes \cup OtherIncludes}
             \cup {<<EnvTag, t>> : t \in IncludeTags(KeyFile, {FileA}, {<<>>})},
     b \in {<<t>> : t \in FileIncludes \cup OtherIncludes} \cup {<<>>, <<EnvTag>>},
     e \in IncludedTexts,
     p \in IncludedTexts \ {<<>>},
     listing \in {<<PrependConfig(FileE), PrependConfig(FileN)>>}}

\* the names of numeric references: # or #x and up to MaxDigits characters
DigitChars == {Ascii[c] : c \in {"0", "1", "2", "4", "5", "6", "f", "x", "-"}}
DigitStrings == UNION {[1..n -> DigitChars] : n \in 0..MaxDigits}
NumericNames ==
  {Text(<<"#">>) \o d : d \in DigitStrings} \cup {Text(<<"#", "x">>) \o d : d \in DigitStrings}

\* the names of the other references: the environment's, the variables'
OtherNames ==
  {EnvPrefix \o EnvName, EnvPrefix \o Text(<<"Y">>), EnvPrefix, AmpName, QuotName,
   NameFoo, NameBar, <<>>, Text(<<"a", " ", "b">>)}

Reference(name) == Text(<<"&">>) \o name \o Text(<<";">>)

\* the values that refer to something other than a number, the last two of
\* them with text around the reference, and with a reference that does not end
OtherValues ==
  {Reference(n) : n \in OtherNames}
    \cup {Text(<<"a">>) \o Reference(AmpName) \o Text(<<"CR", "b">>), Text(<<"&">>) \o AmpName}

\* the tags that define a variable, or fail to
Defines ==
  {Tag(NameDefine, <<Item(KeyName, n), Item(KeyValue, v)>>) :
     n \in {NameFoo, AmpName}, v \in {Text(<<"v">>), Reference(QuotName)}}
    \cup {Tag(NameDefine, <<Item(KeyValue, Text(<<"v">>))>>)}

UseTag(raw) == Tag(NameT, <<Item(KeyK, raw)>>)

\* the file systems whose files refer to numbers, to the environment and to
\* variables: the server's file holds the reference, or a file that it includes
\* does, with noenv or without
EntitySystems ==
  {[files |-> [path \in {PrependConfig(FileA)} |-> <<UseTag(Reference(n))>>],
    dirs |-> <<>>, programs |-> <<>>] : n \in NumericNames}
  \cup
  {[files |-> [path \in {PrependConfig(FileA), PrependConfig(FileB)} |->
                 IF path = PrependConfig(FileA) THEN <<inc>> ELSE b],
    dirs |-> <<>>, programs |-> <<>>] :
     inc \in IncludeTags(KeyFile, {FileB}, {<<>>, <<Item(KeyNoEnv, Yes)>>}),
     b \in {<<UseTag(v)>> : v \in OtherValues}
             \cup {<<d, UseTag(v)>> : d \in Defines, v \in OtherValues}
             \cup {<<UseTag(Reference(NameFoo)), d>> : d \in Defines}}

\* the server starts with one of these configurations on disk
InitConf ==
  /\ InitModeParser /\ InitTimers /\ InitXLines /\ InitLog /\ InitRehash /\ InitCommands
  /\ conffiles \in IncludeSystems \cup EntitySystems
  /\ NoParse

SpecConf == InitConf /\ [][NextParser]_vars


(***************************************************************************)
(* Looped inclusion                                                         *)
(***************************************************************************)
\* the files that the <include file=...> tags of a file name
FileEdges(fs, path) ==
  {PrependConfig(ReadValue(t.items[i].raw, {}, InitialVars).value) :
     <<t, i>> \in {<<u, j>> \in {fs.files[path][n] : n \in DOMAIN fs.files[path]} \X (1..3) :
                     /\ equalsci(u.name, NameInclude)
                     /\ j <= Len(u.items)
                     /\ equalsci(u.items[j].key, KeyFile)
                     /\ \A h \in 1..(j - 1) : ~equalsci(u.items[h].key, KeyFile)}}
    \cap DOMAIN fs.files

\* the files a chain of such tags leads to from the files of a set
RECURSIVE FileChains(_, _)
FileChains(fs, paths) ==
  LET next == paths \cup UNION {FileEdges(fs, path) : path \in paths}
  IN IF next = paths THEN paths ELSE FileChains(fs, next)

\* the file includes itself, directly or through a chain of include tags
IncludesItself(fs, path) == path \in FileChains(fs, FileEdges(fs, path))

\* the server's file, or a file that its include tags lead to, includes itself
LoopedConfig ==
  /\ ConfigFileName \in DOMAIN conffiles.files
  /\ \E path \in FileChains(conffiles, {ConfigFileName}) : IncludesItself(conffiles, path)

\* no path is twice among the files being read, which are the files of the
\* parsers, so that no more files are being read than there are
ReadingOnce ==
  /\ \A i, j \in 1..Len(reading) : reading[i] = reading[j] => i = j
  /\ reading = [i \in DOMAIN parsers |-> parsers[i].path]
  /\ Len(reading) <= Cardinality(DOMAIN conffiles.files \cup DOMAIN conffiles.programs)

\* a configuration with a file that includes itself is never read with success
LoopedNeverRead == LoopedConfig => parsed # "ok"

\* DoInclude is about to call ParseFile for a file that is being read
Reentering ==
  /\ parsed = "running"
  /\ parsers # <<>>
  /\ Top.inc.on
  /\ isin(reading, Head(Top.inc.todo))

\* the call fails the whole parse, and errstr says why
ReentryFails ==
  Reentering => /\ parsed' = "failed"
                /\ reading' = <<>>
                /\ isin(errstr', LoopedInclusion)

\* C15: a configuration whose file includes itself, directly or through a chain
\* of <include file> tags, is not read with success; a ParseFile call for a
\* path that is being read fails the parse with the looped inclusion error;
\* no path is ever twice among the files being read, so that the includes
\* come to an end
LoopedInclusionFails == [](ReadingOnce /\ LoopedNeverRead) /\ [][ReentryFails]_vars

\* a includes b, b includes a, and the parse has failed at b's include
LoopThroughB ==
  /\ parsed = "failed"
  /\ errstr = <<LoopedInclusion, "Included">>
  /\ PrependConfig(FileB) \in DOMAIN conffiles.files
  /\ PrependConfig(FileB) \in FileEdges(conffiles, ConfigFileName)
  /\ ConfigFileName \in FileEdges(conffiles, PrependConfig(FileB))


(***************************************************************************)
(* The flags of included files                                              *)
(***************************************************************************)
\* the include tag that parser i is in, as dotag read it
IncludeTagOf(i) ==
  KvLoop(TagsOf(conffiles, parsers[i].path, parsers[i].isexec)[parsers[i].pos].items,
         1, <<>>, parsers[i].flags, stackvars).value

Restrictions == {FLAG_NO_INC, FLAG_NO_EXEC, FLAG_NO_ENV}

\* every flag in force for a file is in force for the file it includes
AllFlagsKept ==
  \A i \in 1..(Len(parsers) - 1) : parsers[i].flags \subseteq parsers[i + 1].flags

\* C16 as it stands: noinclude, noexec, noenv and missingokay alike are in
\* force for every file included by a file they are in force for
AllFourInherit == []AllFlagsKept

\* the restrictions in force for a file are in force for the file it includes,
\* which has besides them only those its include tag asks for
RestrictionsKept ==
  \A i \in 1..(Len(parsers) - 1) :
    LET tag == IncludeTagOf(i)
        asked == {f \in Restrictions :
                    getBool(tag, CASE f = FLAG_NO_INC -> KeyNoInclude
                                   [] f = FLAG_NO_EXEC -> KeyNoExec
                                   [] f = FLAG_NO_ENV -> KeyNoEnv,
                            f # FLAG_NO_INC /\ parsers[i + 1].isexec)}
    IN /\ parsers[i].flags \cap Restrictions \subseteq parsers[i + 1].flags
       /\ parsers[i + 1].flags \cap Restrictions
            = (parsers[i].flags \cap Restrictions) \cup asked

\* missingokay is in force for a file included by <include file> when that tag
\* asks for it, and for a file included otherwise when it is in force for the
\* including file
MissingOkayOfTag ==
  \A i \in 1..(Len(parsers) - 1) :
    FLAG_MISSING_OKAY \in parsers[i + 1].flags
      <=> IF readString(IncludeTagOf(i), KeyFile).found
          THEN getBool(IncludeTagOf(i), KeyMissingOkay, FALSE)
          ELSE FLAG_MISSING_OKAY \in parsers[i].flags

\* a file under noinclude includes nothing, a file under noexec no program
RestrictionsHold ==
  \A i \in 1..(Len(parsers) - 1) :
    /\ FLAG_NO_INC \notin parsers[i].flags
    /\ FLAG_NO_EXEC \in parsers[i].flags => ~parsers[i + 1].isexec

\* C16, amended: noinclude, noexec and noenv are in force for every file
\* included by a file they are in force for, and an include tag adds to them
\* but clears none; missingokay is in force for a file included by
\* <include file> exactly when that tag asks for it
RestrictionsInherit == [](RestrictionsKept /\ MissingOkayOfTag /\ RestrictionsHold)

\* b is read under noenv and missingokay, and the file it includes with
\* noenv="no" is read under noenv, without missingokay
NoEnvKeptMissingOkayLost ==
  /\ Len(parsers) = 3
  /\ parsers[2].flags = {FLAG_NO_ENV, FLAG_MISSING_OKAY}
  /\ readString(IncludeTagOf(2), KeyNoEnv).found
  /\ ~getBool(IncludeTagOf(2), KeyNoEnv, TRUE)
  /\ parsers[3].flags = {FLAG_NO_ENV}


(***************************************************************************)
(* Entity references in values                                              *)
(***************************************************************************)
\* the number a string of digits spells in a base
RECURSIVE NumberOf(_, _)
NumberOf(digits, base) ==
  IF digits = <<>>
  THEN 0
  ELSE NumberOf(SubSeq(digits, 1, Len(digits) - 1), base) * base
         + DigitValue(digits[Len(digits)], base)

IsNumeral(digits, base) ==
  digits # <<>> /\ \A i \in 1..Len(digits) : DigitValue(digits[i], base) >= 0

\* the first index of a character in a text, 0 when it is not there
FirstOf(text, ch) ==
  IF \E i \in 1..Len(text) : text[i] = ch
  THEN CHOOSE i \in 1..Len(text) : text[i] = ch /\ \A j \in 1..(i - 1) : text[j] # ch
  ELSE 0

\* the text without its carriage returns, as a value keeps it
Kept(text) == LET NotCR(ch) == ch # Ascii["CR"] IN SelectSeq(text, NotCR)

\* the parser is about to read a tag of no special name with a single value,
\* in which there is one reference, with its ';'
UsesReference ==
  /\ parsed = "running"
  /\ parsers # <<>>
  /\ ~Top.inc.on
  /\ Top.pos <= Len(TagsOf(conffiles, Top.path, Top.isexec))
  /\ LET tag == TagsOf(conffiles, Top.path, Top.isexec)[Top.pos]
         raw == tag.items[1].raw
         amp == FirstOf(raw, Ascii["&"])
     IN /\ tag.name = NameT
        /\ Len(tag.items) = 1
        /\ amp > 0
        /\ FirstOf(SubSeq(raw, amp + 1, Len(raw)), Ascii["&"]) = 0
        /\ FirstOf(SubSeq(raw, amp + 1, Len(raw)), Ascii[";"]) > 0

\* dotag reads the tag, and what the reference stands for
ReferenceExpands ==
  LET tag == TagsOf(conffiles, Top.path, Top.isexec)[Top.pos]
      raw == tag.items[1].raw
      amp == FirstOf(raw, Ascii["&"])
      semi == amp + FirstOf(SubSeq(raw, amp + 1, Len(raw)), Ascii[";"])
      name == SubSeq(raw, amp + 1, semi - 1)
      Read(text) ==
        /\ parsed' # "failed"
        /\ output' = Append(output,
                            [name |-> tag.name,
                             items |-> <<[key |-> tag.items[1].key,
                                          value |-> Kept(SubSeq(raw, 1, amp - 1)) \o text
                                                      \o Kept(SubSeq(raw, semi + 1, Len(raw)))]>>])
      Fails == parsed' = "failed" /\ output' = output
      Numbered(digits, base) ==
        IF NumberOf(digits, base) <= 255 THEN Read(<<NumberOf(digits, base)>>) ELSE Fails
  IN IF Len(name) >= 2 /\ name[1] = Ascii["#"] /\ IsNumeral(SubSeq(name, 2, Len(name)), 10)
     THEN Numbered(SubSeq(name, 2, Len(name)), 10)
     ELSE IF /\ Len(name) >= 3 /\ name[1] = Ascii["#"] /\ name[2] = Ascii["x"]
             /\ IsNumeral(SubSeq(name, 3, Len(name)), 16)
     THEN Numbered(SubSeq(name, 3, Len(name)), 16)
     ELSE IF name # <<>> /\ name[1] = Ascii["#"]
     THEN TRUE
     ELSE IF Len(name) >= 4 /\ SubSeq(name, 1, 4) = EnvPrefix
     THEN IF FLAG_NO_ENV \in Top.flags \/ SubSeq(name, 5, Len(name)) # EnvName
          THEN Fails
          ELSE Read(EnvValue)
     ELSE IF name # <<>> /\ \A i \in 1..Len(name) : wordchar(name[i])
     THEN IF name \in DOMAIN stackvars THEN Read(stackvars[name]) ELSE Fails
     ELSE Fails

\* the variables are amp and quot when a parse starts, and change after that
\* only as a define tag with a name says
VariablesFromDefines ==
  stackvars' # stackvars =>
    IF parsed # "running"
    THEN /\ DOMAIN stackvars' = {AmpName, QuotName}
         /\ stackvars'[AmpName] = <<Ascii["&"]>>
         /\ stackvars'[QuotName] = <<Ascii["\""]>>
    ELSE LET tag == TagsOf(conffiles, Top.path, Top.isexec)[Top.pos]
             Given(key) == {ReadValue(tag.items[i].raw, Top.flags, stackvars).value :
                              i \in {j \in 1..Len(tag.items) : tag.items[j].key = key}}
         IN /\ tag.name = NameDefine
            /\ \E n \in Given(KeyName), v \in Given(KeyValue) :
                 /\ DOMAIN stackvars' = DOMAIN stackvars \cup {n}
                 /\ stackvars'[n] = v
                 /\ \A o \in DOMAIN stackvars \ {n} : stackvars'[o] = stackvars[o]

\* C17: in a value, &#N; and &#xH; stand for the character of code N or H when
\* it is at most 255 and fail the parse otherwise; &env.NAME; stands for the
\* value of the environment variable and fails the parse when it is unset or
\* the file is read under noenv; &name; stands for the variable's value, which
\* is that of the last define of the name before it, or '&' and '"' for amp and
\* quot, and fails the parse when there is no such variable
EntitiesExpand == [][(UsesReference => ReferenceExpands) /\ VariablesFromDefines]_vars

\* the value "&#x41;" was read as the one character A
HexReferenceRead ==
  /\ parsed = "ok"
  /\ conffiles.files[ConfigFileName] = <<UseTag(Reference(Text(<<"#", "x", "4", "1">>)))>>
  /\ output = <<[name |-> NameT, items |-> <<[key |-> KeyK, value |-> <<Ascii["A"]>>]>>]>>


(***************************************************************************)
(* The log manager                                                          *)
(***************************************************************************)
\* the LogStream objects, by address, and the types of messages
StreamIds == {1, 2}
LogTypes == {"*", "A", "B"}

\* std::map: operator[] and emplace, erase, the keys in their order
MapPut(map, key, value) ==
  [k \in DOMAIN map \cup {key} |-> IF k = key THEN value ELSE map[k]]
MapErase(map, key) == [k \in DOMAIN map \ {key} |-> map[k]]
MapEmplace(map, key, value) == IF key \in DOMAIN map THEN map ELSE MapPut(map, key, value)
RECURSIVE KeysInOrder(_)
KeysInOrder(keys) ==
  IF keys = {}
  THEN <<>>
  ELSE LET least == CHOOSE k \in keys : \A o \in keys : k <= o
       IN <<least>> \o KeysInOrder(keys \ {least})

\* stdalgo::erase(vector, value): the vector without the first element equal
\* to the value
EraseFirst(seq, value) ==
  LET i == CHOOSE j \in 1..Len(seq) : seq[j] = value /\ \A k \in 1..(j - 1) : seq[k] # value
  IN IF isin(seq, value)
     THEN SubSeq(seq, 1, i - 1) \o SubSeq(seq, i + 1, Len(seq))
     ELSE seq

\* the containers of the LogManager and the streams that exist
Manager ==
  [LogStreams |-> LogStreams, GlobalLogStreams |-> GlobalLogStreams,
   AllLogStreams |-> AllLogStreams, live |-> livestreams]

\* LogManager::AddLogType
AddLogType(L, type, l, autoclose) ==
  LET listed == [L EXCEPT !.LogStreams =
                   MapPut(@, type, Append(IF type \in DOMAIN @ THEN @[type] ELSE <<>>, l))]
      global == IF type = "*"
                THEN [listed EXCEPT !.GlobalLogStreams = MapEmplace(@, l, <<>>)]
                ELSE listed
  IN IF autoclose
     THEN [global EXCEPT !.AllLogStreams =
             MapPut(@, l, (IF l \in DOMAIN @ THEN @[l] ELSE 0) + 1)]
     ELSE global

\* LogManager::DelLogType
DelLogType(L, type, l) ==
  LET global == IF type = "*"
                THEN [L EXCEPT !.GlobalLogStreams = MapErase(@, l)]
                ELSE L
      left == EraseFirst(global.LogStreams[type], l)
      erased == [global EXCEPT !.LogStreams =
                   IF left = <<>> THEN MapErase(@, type) ELSE MapPut(@, type, left)]
  IN IF type \notin DOMAIN global.LogStreams \/ ~isin(global.LogStreams[type], l)
     THEN global
     ELSE IF l \notin DOMAIN erased.AllLogStreams
     THEN erased
     ELSE IF erased.AllLogStreams[l] - 1 < 1
     THEN [erased EXCEPT !.AllLogStreams = MapErase(@, l), !.live = @ \ {l}]
     ELSE [erased EXCEPT !.AllLogStreams[l] = @ - 1]

\* LogManager::DelLogStream
DelLogStream(L, l) ==
  LET NotL(s) == s # l
      erased == [L EXCEPT !.LogStreams = [t \in DOMAIN @ |-> SelectSeq(@[t], NotL)],
                          !.GlobalLogStreams = MapErase(@, l)]
      ai == KeysInOrder(DOMAIN erased.AllLogStreams)[1]
  IN IF DOMAIN erased.AllLogStreams = {}
     THEN erased
     ELSE [erased EXCEPT !.AllLogStreams = MapErase(@, ai), !.live = @ \ {ai}]

\* the tokens of a type list, and the type that a token starting with '-'
\* excludes
LogTokens == {"", "*", "A", "-*", "-A"}
IsExclude(tok) == tok \in {"-*", "-A"}
Substr1(tok) == CASE tok = "-*" -> "*" [] tok = "-A" -> "A"

\* AddLogTypes, lines 146-161: the types of the list added in order, the
\* exclusions set aside
RECURSIVE AddLogTypesAdded(_, _, _, _, _)
AddLogTypesAdded(L, types, i, l, autoclose) ==
  IF i > Len(types)
  THEN L
  ELSE IF types[i] = "" \/ IsExclude(types[i])
  THEN AddLogTypesAdded(L, types, i + 1, l, autoclose)
  ELSE AddLogTypesAdded(AddLogType(L, types[i], l, autoclose), types, i + 1, l, autoclose)

Excludes(types) == LET E(tok) == IsExclude(tok) IN
  [i \in DOMAIN SelectSeq(types, E) |-> Substr1(SelectSeq(types, E)[i])]

\* AddLogTypes, lines 164-179: the exclusions taken out in order, and handed to
\* the stream's entry among the global streams; an exclusion of "*" takes the
\* stream out for good and ends the call
RECURSIVE AddLogTypesExcluded(_, _, _, _)
AddLogTypesExcluded(L, excludes, i, l) ==
  IF i > Len(excludes)
  THEN IF l \in DOMAIN L.GlobalLogStreams
       THEN [L EXCEPT !.GlobalLogStreams[l] = excludes]
       ELSE L
  ELSE IF excludes[i] = "*"
  THEN DelLogStream(L, l)
  ELSE AddLogTypesExcluded(DelLogType(L, excludes[i], l), excludes, i + 1, l)

\* LogManager::AddLogTypes
AddLogTypes(L, types, l, autoclose) ==
  AddLogTypesExcluded(AddLogTypesAdded(L, types, 1, l, autoclose), Excludes(types), 1, l)

\* the global streams that take a message when exclusions are not looked at
GlobalTargetsAll(L, type) == KeysInOrder(DOMAIN L.GlobalLogStreams)

\* Log, lines 278-282: the global streams that take a message of a type, in the
\* map's order
GlobalTargets(L, type) ==
  LET Takes(ls) == ~isin(L.GlobalLogStreams[ls], type)
  IN SelectSeq(KeysInOrder(DOMAIN L.GlobalLogStreams), Takes)

\* Log, lines 284-289: the streams of the type's own list
TypeTargets(L, type) ==
  IF type \in DOMAIN L.LogStreams THEN L.LogStreams[type] ELSE <<>>

\* the streams that Log calls OnLog on, in the order of the calls
Deliveries(L, type) == GlobalTargets(L, type) \o TypeTargets(L, type)

\* Log without the guard
LogGuardOff(logging) == FALSE

\* Log, lines 271-274: the call returns at once while a message is delivered
LogGuard(logging) == logging

\* the entries of the per-type lists, all lists together
Listed(L) ==
  LET RECURSIVE Sum(_)
      Sum(types) == IF types = {}
                    THEN 0
                    ELSE LET t == CHOOSE x \in types : TRUE
                         IN Len(L.LogStreams[t]) + Sum(types \ {t})
  IN Sum(DOMAIN L.LogStreams)

\* no container of the manager holds the stream
Unregistered(L, l) ==
  /\ \A t \in DOMAIN L.LogStreams : ~isin(L.LogStreams[t], l)
  /\ l \notin DOMAIN L.GlobalLogStreams
  /\ l \notin DOMAIN L.AllLogStreams

\* the caller has the stream, or makes it for the call
Held(l) == l \in livestreams \/ Unregistered(Manager, l)

\* the manager is as L says after a call made with stream l from outside Log
Managed(L, l) ==
  /\ Listed(L) <= MaxListed
  /\ \A s \in DOMAIN L.AllLogStreams : L.AllLogStreams[s] <= MaxListed
  /\ LogStreams' = L.LogStreams
  /\ GlobalLogStreams' = L.GlobalLogStreams
  /\ AllLogStreams' = L.AllLogStreams
  /\ livestreams' = L.live
  /\ onlog' = <<>>
  /\ nestedlogs' = 0
  /\ UNCHANGED <<Logging, logcalls, logstate, nonlogvars>>

Quiet == logstate = "up" /\ logcalls = <<>>

AddLogTypesCall(types, l, autoclose) ==
  /\ Quiet
  /\ Held(l)
  /\ Managed(AddLogTypes([Manager EXCEPT !.live = @ \cup {l}], types, l, autoclose), l)

AddLogTypeCall(type, l, autoclose) ==
  /\ Quiet
  /\ Held(l)
  /\ Managed(AddLogType([Manager EXCEPT !.live = @ \cup {l}], type, l, autoclose), l)

DelLogTypeCall(type, l) ==
  /\ Quiet
  /\ l \in livestreams
  /\ Managed(DelLogType(Manager, type, l), l)

DelLogStreamCall(l) ==
  /\ Quiet
  /\ l \in livestreams
  /\ Managed(DelLogStream(Manager, l), l)

\* the message of a Log call made from outside is 0, those of the calls made
\* from inside OnLog are numbered from 1
LogCall(type, msg) == [type |-> type, msg |-> msg, i |-> 1]
InnerLog == logcalls[Len(logcalls)]

\* LogManager::Log up to its first loop, called from outside; Log with a format
\* (259-267) has the same guard and calls this one
Log(type) ==
  /\ Quiet
  /\ IF LogGuard(Logging)
     THEN UNCHANGED <<Logging, logcalls, onlog, nestedlogs>>
     ELSE /\ Logging' = TRUE
          /\ logcalls' = <<LogCall(type, 0)>>
          /\ onlog' = <<>>
          /\ nestedlogs' = 0
  /\ UNCHANGED <<LogStreams, GlobalLogStreams, AllLogStreams, livestreams, logstate,
                 nonlogvars>>

\* Log's loops: the next OnLog call; on a stream that was deleted the call
\* either goes as if the stream were there or ends the process
OnLog ==
  /\ logstate = "up"
  /\ logcalls # <<>>
  /\ InnerLog.i <= Len(Deliveries(Manager, InnerLog.type))
  /\ LET ls == Deliveries(Manager, InnerLog.type)[InnerLog.i]
     IN \/ /\ onlog' = Append(onlog, [stream |-> ls, type |-> InnerLog.type,
                                      msg |-> InnerLog.msg])
           /\ logcalls' = [logcalls EXCEPT ![Len(logcalls)].i = @ + 1]
           /\ UNCHANGED logstate
        \/ /\ ls \notin livestreams
           /\ logstate' = "crashed"
           /\ UNCHANGED <<onlog, logcalls>>
  /\ UNCHANGED <<LogStreams, GlobalLogStreams, AllLogStreams, livestreams, Logging,
                 nestedlogs, nonlogvars>>

\* the OnLog call under way calls Log
NestedLog(type) ==
  /\ logstate = "up"
  /\ logcalls # <<>>
  /\ InnerLog.i > 1
  /\ nestedlogs < MaxNested
  /\ nestedlogs' = nestedlogs + 1
  /\ IF LogGuard(Logging)
     THEN UNCHANGED <<Logging, logcalls>>
     ELSE /\ Logging' = TRUE
          /\ logcalls' = Append(logcalls, LogCall(type, nestedlogs + 1))
  /\ UNCHANGED <<LogStreams, GlobalLogStreams, AllLogStreams, livestreams, onlog,
                 logstate, nonlogvars>>

\* Log, line 291: the loops are done
LogReturn ==
  /\ logstate = "up"
  /\ logcalls # <<>>
  /\ InnerLog.i > Len(Deliveries(Manager, InnerLog.type))
  /\ Logging' = FALSE
  /\ logcalls' = SubSeq(logcalls, 1, Len(logcalls) - 1)
  /\ onlog' = IF Len(logcalls) = 1 THEN <<>> ELSE onlog
  /\ UNCHANGED <<LogStreams, GlobalLogStreams, AllLogStreams, livestreams,
                 nestedlogs, logstate, nonlogvars>>

\* the type lists given to AddLogTypes, and the types streams are registered
\* for one by one; messages have these types or another one
TypeLists ==
  {<<"">>, <<"*">>, <<"A">>, <<"-*">>, <<"*", "-A">>, <<"A", "-A">>, <<"A", "-*">>,
   <<"A", "*", "-A">>, <<"A", "A", "*", "-A">>}
ListedTypes == {"*", "A"}

NextLog ==
  \/ \E types \in TypeLists, l \in StreamIds, autoclose \in BOOLEAN :
       AddLogTypesCall(types, l, autoclose)
  \/ \E type \in ListedTypes, l \in StreamIds, autoclose \in BOOLEAN :
       AddLogTypeCall(type, l, autoclose)
  \/ \E type \in ListedTypes, l \in StreamIds : DelLogTypeCall(type, l)
  \/ \E l \in StreamIds : DelLogStreamCall(l)
  \/ \E type \in LogTypes : Log(type)
  \/ OnLog
  \/ \E type \in LogTypes : NestedLog(type)
  \/ LogReturn

SpecLog == InitServer /\ [][NextLog]_vars


(***************************************************************************)
(* Logging from inside OnLog                                                *)
(***************************************************************************)
\* no Log call is under way inside another, and no OnLog call was made for a
\* message logged from inside OnLog
OneDelivery ==
  /\ Len(logcalls) <= 1
  /\ \A i \in 1..Len(onlog) : onlog[i].msg = 0

\* the flag is set exactly while a Log call is under way
FlagWhileLogging == Logging <=> logcalls # <<>>

\* a Log call made from inside OnLog changes nothing
NestedIsDropped ==
  nestedlogs' = nestedlogs + 1 => UNCHANGED <<Logging, logcalls, onlog>>

\* a Log call made while none is under way sets the flag and makes its OnLog
\* calls
DeliveredAgain ==
  (logcalls = <<>> /\ logcalls' # <<>>) =>
     /\ ~Logging
     /\ Logging'
     /\ logcalls' = <<LogCall(logcalls'[1].type, 0)>>

\* C18: while Log delivers a message a Log call made from inside OnLog is
\* dropped, no OnLog call is made for its message and no delivery runs inside
\* another; when the outer call has returned the flag is clear and the next
\* Log call delivers
NestedLogSuppressed ==
  [](OneDelivery /\ FlagWhileLogging) /\ [][NestedIsDropped /\ DeliveredAgain]_vars

\* a Log call has delivered its message to a stream whose OnLog called Log, and
\* has returned
ReturnedAfterNested ==
  /\ logstate = "up"
  /\ logcalls = <<>>
  /\ ~Logging
  /\ nestedlogs = 1

(***************************************************************************)
(* The streams a message goes to                                            *)
(***************************************************************************)
\* the global streams that do not exclude a type
GlobalFor(type) ==
  {ls \in DOMAIN GlobalLogStreams : \A i \in 1..Len(GlobalLogStreams[ls]) :
                                      GlobalLogStreams[ls][i] # type}

\* the streams of the type's own list
ListFor(type) == IF type \in DOMAIN LogStreams THEN LogStreams[type] ELSE <<>>

\* the OnLog calls of a publication of a type: first one call on each global
\* stream that does not exclude the type, then the calls on the streams of the
\* type's list, in the list's order; all of them with the type and the message
PublishedTo(type) ==
  LET g == Len(onlog) - Len(ListFor(type))
  IN /\ g = Cardinality(GlobalFor(type))
     /\ {onlog[i].stream : i \in 1..g} = GlobalFor(type)
     /\ \A i \in 1..Len(ListFor(type)) : onlog[g + i].stream = ListFor(type)[i]
     /\ \A i \in 1..Len(onlog) : onlog[i].type = type /\ onlog[i].msg = 0

\* no call is made on a stream that is not in the type's list and is not
\* global, or is global and excludes the type
OthersNotCalled(type) ==
  \A ls \in StreamIds :
    (~isin(ListFor(type), ls) /\ ls \notin GlobalFor(type))
      => \A i \in 1..Len(onlog) : onlog[i].stream # ls

\* the Log call made from outside returns
Publishes == logcalls # <<>> /\ logcalls' = <<>> /\ logstate' = "up"

\* C19: a publication of type T calls OnLog on every global stream that does
\* not exclude T, then on every stream of T's list, and on no stream that is
\* neither: not on a global stream that excludes T, not on a stream that is
\* registered for other types only
PublicationReachesStreams ==
  [][Publishes => PublishedTo(logcalls[1].type) /\ OthersNotCalled(logcalls[1].type)]_vars

\* a message of type A went to global stream 2 and then to stream 2 as a stream
\* of A, and not to global stream 1, which excludes A; Log is about to return
ExcludedStreamSkipped ==
  /\ logstate = "up"
  /\ Len(logcalls) = 1
  /\ logcalls[1].type = "A"
  /\ logcalls[1].i > Len(Deliveries(Manager, "A"))
  /\ 1 \in DOMAIN GlobalLogStreams
  /\ GlobalLogStreams[1] = <<"A">>
  /\ 2 \in GlobalFor("A")
  /\ ListFor("A") = <<2>>
  /\ onlog = <<[stream |-> 2, type |-> "A", msg |-> 0], [stream |-> 2, type |-> "A", msg |-> 0]>>


(***************************************************************************)
(* Modules that rebuild a set from the configuration                        *)
(*   ModuleSSLGnuTLS::ReadProfiles, ModuleRestrictChans::ReadConfig,        *)
(*   ModuleVHost::ReadConfig                                                *)
(***************************************************************************)
\* the most tags of one name in a configuration
MaxTags == 2

\* ConfigTag::getString with a default and a least length
getStringOr(items, key, def, minlen) ==
  LET r == readString(items, key)
  IN IF ~r.found THEN def ELSE IF Len(r.value) < minlen THEN def ELSE r.value

KeyProvider == Text(<<"p", "r", "o", "v", "i", "d", "e", "r">>)
KeyCertFile == Text(<<"c", "e", "r", "t", "f", "i", "l", "e">>)
KeyOnRehash == Text(<<"o", "n", "r", "e", "h", "a", "s", "h">>)
KeyAllowRegistered == Text(<<"a", "l", "l", "o", "w">>) \o Text(<<"r", "e", "g", "i", "s", "t", "e", "r", "e", "d">>)
KeyHost == Text(<<"h", "o", "s", "t">>)
KeyUser == Text(<<"u", "s", "e", "r">>)
KeyPass == Text(<<"p", "a", "s", "s">>)
KeyHash == Text(<<"h", "a", "s", "h">>)
GnuTLS == Text(<<"g", "n", "u", "t", "l", "s">>)
OpenSSL == Text(<<"o", "p", "e", "n", "s", "s", "l">>)
CertPem == Text(<<"c", "e", "r", "t", ".", "p", "e", "m">>)
Plaintext == Text(<<"p", "l", "a", "i", "n", "t", "e", "x", "t">>)

\* the files GnuTLS::Profile::ReadFile can read
ReadableFiles == {CertPem}

\* a pair of a tag as ConfigTag holds it
Pair(key, value) == [key |-> key, value |-> value]

\* the providers of a list, as the objects they are
Ids(list) == {list[i].id : i \in 1..Len(list)}

\* a new GnuTLSIOHookProvider: an object that is none of the living ones
NewProvider(living) == CHOOSE id \in 1..(Cardinality(living) + 1) : id \notin living

\* what ReadProfiles and ReadConfig come to: an exception or a return, and
\* the state they leave
Ended(thrown, state) == [thrown |-> thrown, state |-> state]

\* ModuleSSLGnuTLS::ReadProfiles, the loop over the tags: the providers of
\* newprofiles are made and registered one by one; an exception destroys
\* newprofiles, whose providers unregister
RECURSIVE ProfilesLoop(_, _, _, _, _)
ProfilesLoop(old, tags, i, newprofiles, registered) ==
  IF i > Len(tags)
  THEN Ended(FALSE, [profiles |-> newprofiles, services |-> registered \ Ids(old)])
  ELSE IF ~equalsci(getString(tags[i], KeyProvider), GnuTLS)
  THEN ProfilesLoop(old, tags, i + 1, newprofiles, registered)
  ELSE IF getString(tags[i], KeyName) = <<>>
  THEN ProfilesLoop(old, tags, i + 1, newprofiles, registered)
  ELSE IF getStringOr(tags[i], KeyCertFile, CertPem, 1) \notin ReadableFiles
  THEN Ended(TRUE, [profiles |-> old, services |-> registered \ Ids(newprofiles)])
  ELSE LET prov == [id |-> NewProvider(Ids(old) \cup Ids(newprofiles)),
                    name |-> getString(tags[i], KeyName),
                    certstr |-> getStringOr(tags[i], KeyCertFile, CertPem, 1)]
       IN ProfilesLoop(old, tags, i + 1, Append(newprofiles, prov),
                       registered \cup {prov.id})

\* ReadProfiles with the providers of newprofiles put to use as they are made
ReadProfilesInPlace(old, registered, tags) ==
  LET RECURSIVE Loop(_, _, _)
      Loop(i, list, reg) ==
        IF i > Len(tags)
        THEN Ended(FALSE, [profiles |-> list, services |-> reg])
        ELSE IF ~equalsci(getString(tags[i], KeyProvider), GnuTLS)
                  \/ getString(tags[i], KeyName) = <<>>
        THEN Loop(i + 1, list, reg)
        ELSE IF getStringOr(tags[i], KeyCertFile, CertPem, 1) \notin ReadableFiles
        THEN Ended(TRUE, [profiles |-> list, services |-> reg])
        ELSE LET prov == [id |-> NewProvider(Ids(old) \cup Ids(list)),
                          name |-> getString(tags[i], KeyName),
                          certstr |-> getStringOr(tags[i], KeyCertFile, CertPem, 1)]
             IN Loop(i + 1, Append(list, prov), reg \cup {prov.id})
  IN IF tags = <<>>
     THEN Ended(TRUE, [profiles |-> old, services |-> registered])
     ELSE Loop(1, <<>>, registered \ Ids(old))
\* ModuleSSLGnuTLS::ReadProfiles
ReadProfiles(old, registered, tags) ==
  IF tags = <<>>
  THEN Ended(TRUE, [profiles |-> old, services |-> registered])
  ELSE ProfilesLoop(old, tags, 1, <<>>, registered)

\* insp::flat_set<std::string, irc::insensitive_swo>::insert
FlatSetInsert(set, name) ==
  IF \E n \in set : equalsci(n, name) THEN set ELSE set \cup {name}

\* ModuleRestrictChans::ReadConfig, the loop over the <allowchannel> tags
RECURSIVE AllowsLoop(_, _, _)
AllowsLoop(tags, i, newallows) ==
  IF i > Len(tags)
  THEN Ended(FALSE, newallows)
  ELSE IF getString(tags[i], KeyName) = <<>>
  THEN Ended(TRUE, newallows)
  ELSE AllowsLoop(tags, i + 1, FlatSetInsert(newallows, getString(tags[i], KeyName)))

\* ModuleRestrictChans::ReadConfig
RestrictChansReadConfig(old, tags, restrictchans) ==
  LET read == AllowsLoop(tags, 1, {})
  IN IF read.thrown
     THEN Ended(TRUE, old)
     ELSE Ended(FALSE, [allowchans |-> read.state,
                          allowregistered |-> getBool(restrictchans, KeyAllowRegistered, FALSE)])

\* std::multimap::emplace: the entry goes after the entries of its key
MultimapEmplace(map, key, value) ==
  MapPut(map, key, IF key \in DOMAIN map THEN Append(map[key], value) ELSE <<value>>)

\* ModuleVHost::ReadConfig, the loop over the <vhost> tags
RECURSIVE VhostsLoop(_, _, _)
VhostsLoop(tags, i, newhosts) ==
  IF i > Len(tags)
  THEN Ended(FALSE, newhosts)
  ELSE IF getString(tags[i], KeyHost) = <<>>
  THEN Ended(TRUE, newhosts)
  ELSE IF getString(tags[i], KeyUser) = <<>>
  THEN Ended(TRUE, newhosts)
  ELSE IF getString(tags[i], KeyPass) = <<>>
  THEN Ended(TRUE, newhosts)
  ELSE LET vhost == [name |-> getString(tags[i], KeyUser),
                     password |-> getString(tags[i], KeyPass),
                     hash |-> getStringOr(tags[i], KeyHash, Plaintext, 1),
                     vhost |-> getString(tags[i], KeyHost)]
       IN VhostsLoop(tags, i + 1, MultimapEmplace(newhosts, vhost.name, vhost))

\* ModuleVHost::ReadConfig
VHostReadConfig(old, tags) ==
  LET read == VhostsLoop(tags, 1, <<>>)
  IN IF read.thrown THEN Ended(TRUE, old) ELSE Ended(FALSE, read.state)

\* a module after its configuration was read: an exception is fatal to a
\* module that is being loaded and leaves a loaded module as it is
AfterRead(module, thrown) ==
  [modstate EXCEPT ![module] =
     IF modstate[module] = "constructed"
     THEN IF thrown THEN "failed" ELSE "loaded"
     ELSE modstate[module]]

\* the read that a step makes, for the properties
Read(module, tags, thrown) == [module |-> module, tags |-> tags, thrown |-> thrown]

\* ModuleSSLGnuTLS::ReadConfig, at the load of the module and on a rehash
GnuTLSReadConfig(tags, gnutls) ==
  /\ modstate["ssl_gnutls"] \in {"constructed", "loaded"}
  /\ LET initial == modstate["ssl_gnutls"] = "constructed"
     IN IF initial \/ getBool(gnutls, KeyOnRehash, TRUE)
        THEN LET read == ReadProfiles(profiles, services, tags)
             IN /\ profiles' = read.state.profiles
                /\ services' = read.state.services
                /\ modstate' = AfterRead("ssl_gnutls", read.thrown)
                /\ lastread' = Read("ssl_gnutls", tags, read.thrown)
        ELSE /\ lastread' = [module |-> "none"]
             /\ UNCHANGED <<profiles, services, modstate>>
  /\ UNCHANGED <<allowchans, allowregistered, vhosts, nonrehashvars>>

\* ModuleSSLGnuTLS::OnModuleRehash
GnuTLSOnModuleRehash(param, tags) ==
  /\ modstate["ssl_gnutls"] = "loaded"
  /\ IF param \notin {"tls", "ssl"}
     THEN /\ lastread' = [module |-> "none"]
          /\ UNCHANGED <<profiles, services>>
     ELSE LET read == ReadProfiles(profiles, services, tags)
          IN /\ profiles' = read.state.profiles
             /\ services' = read.state.services
             /\ lastread' = Read("ssl_gnutls", tags, read.thrown)
  /\ UNCHANGED <<modstate, allowchans, allowregistered, vhosts, nonrehashvars>>

\* ModuleRestrictChans::ReadConfig, at the load of the module and on a rehash
RestrictChansRead(tags, restrictchans) ==
  /\ modstate["restrictchans"] \in {"constructed", "loaded"}
  /\ LET read == RestrictChansReadConfig([allowchans |-> allowchans,
                                          allowregistered |-> allowregistered],
                                         tags, restrictchans)
     IN /\ allowchans' = read.state.allowchans
        /\ allowregistered' = read.state.allowregistered
        /\ modstate' = AfterRead("restrictchans", read.thrown)
        /\ lastread' = Read("restrictchans", tags, read.thrown)
  /\ UNCHANGED <<profiles, services, vhosts, nonrehashvars>>

\* ModuleVHost::ReadConfig, at the load of the module and on a rehash
VHostRead(tags) ==
  /\ modstate["vhost"] \in {"constructed", "loaded"}
  /\ LET read == VHostReadConfig(vhosts, tags)
     IN /\ vhosts' = read.state
        /\ modstate' = AfterRead("vhost", read.thrown)
        /\ lastread' = Read("vhost", tags, read.thrown)
  /\ UNCHANGED <<profiles, services, allowchans, allowregistered, nonrehashvars>>

NameA == Text(<<"a">>)
NameUpperA == Text(<<"A">>)
NameB == Text(<<"b">>)

\* the <sslprofile> tags of the model: two good ones, one of another
\* provider, one without a name, one whose certificate cannot be read
ProfileA == <<Pair(KeyProvider, GnuTLS), Pair(KeyName, NameA)>>
ProfileB ==
  <<Pair(KeyProvider, Text(<<"G">>) \o Text(<<"n", "u", "t", "l", "s">>)), Pair(KeyName, NameB),
    Pair(KeyCertFile, CertPem)>>
ProfileOther == <<Pair(KeyProvider, OpenSSL), Pair(KeyName, NameA), Pair(KeyCertFile, NameB)>>
ProfileNoName == <<Pair(KeyProvider, GnuTLS)>>
ProfileNoCert == <<Pair(KeyProvider, GnuTLS), Pair(KeyName, NameA), Pair(KeyCertFile, NameB)>>

\* the <allowchannel> tags of the model
AllowA == <<Pair(KeyName, NameA)>>
AllowUpperA == <<Pair(KeyName, NameUpperA)>>
AllowB == <<Pair(KeyName, NameB)>>
AllowEmpty == <<Pair(KeyName, <<>>)>>
AllowNoName == <<>>

\* the <vhost> tags of the model
VhostA == <<Pair(KeyUser, NameA), Pair(KeyPass, NameB), Pair(KeyHost, NameA)>>
VhostA2 ==
  <<Pair(KeyUser, NameA), Pair(KeyPass, NameA), Pair(KeyHost, NameB), Pair(KeyHash, <<>>)>>
VhostB ==
  <<Pair(KeyUser, NameB), Pair(KeyPass, NameB), Pair(KeyHost, NameB), Pair(KeyHash, NameA)>>
VhostNoHost == <<Pair(KeyUser, NameA), Pair(KeyPass, NameB)>>
VhostNoUser == <<Pair(KeyPass, NameB), Pair(KeyHost, NameA)>>
VhostNoPass == <<Pair(KeyUser, NameA), Pair(KeyPass, <<>>), Pair(KeyHost, NameA)>>

\* the lists of no more than MaxTags tags out of a set of lists
UpToMaxTags(lists) == {l \in lists : Len(l) <= MaxTags}

\* the configurations that are read
SslProfileLists ==
  UpToMaxTags({<<>>, <<ProfileA>>, <<ProfileB>>, <<ProfileNoCert>>, <<ProfileOther>>,
               <<ProfileA, ProfileB>>, <<ProfileB, ProfileA>>, <<ProfileA, ProfileA>>,
               <<ProfileA, ProfileNoCert>>, <<ProfileNoCert, ProfileA>>,
               <<ProfileOther, ProfileNoName>>, <<ProfileNoName, ProfileNoCert>>,
               <<ProfileA, ProfileB, ProfileNoCert>>, <<ProfileOther, ProfileA, ProfileNoName>>,
               <<ProfileB, ProfileNoCert, ProfileA>>, <<ProfileA, ProfileB, ProfileA>>})
AllowChannelLists ==
  UpToMaxTags({<<>>, <<AllowA>>, <<AllowEmpty>>, <<AllowNoName>>,
               <<AllowA, AllowB>>, <<AllowA, AllowUpperA>>, <<AllowUpperA, AllowA>>,
               <<AllowA, AllowEmpty>>, <<AllowEmpty, AllowB>>, <<AllowB, AllowNoName>>,
               <<AllowA, AllowB, AllowEmpty>>, <<AllowA, AllowUpperA, AllowB>>,
               <<AllowB, AllowA, AllowUpperA>>})
VhostLists ==
  UpToMaxTags({<<>>, <<VhostA>>, <<VhostB>>, <<VhostNoHost>>, <<VhostNoUser>>,
               <<VhostA, VhostA2>>, <<VhostA2, VhostA>>, <<VhostA, VhostB>>,
               <<VhostA, VhostNoPass>>, <<VhostNoUser, VhostA>>, <<VhostB, VhostNoHost>>,
               <<VhostA, VhostA2, VhostB>>, <<VhostA, VhostB, VhostNoPass>>,
               <<VhostB, VhostA, VhostA2>>})

\* the <gnutls> and <restrictchans> tags of the model
SwitchTags(key) == {<<>>, <<Pair(key, Yes)>>, <<Pair(key, No)>>}
GnuTLSTags == SwitchTags(KeyOnRehash)
RestrictChansTags == SwitchTags(KeyAllowRegistered)

NextRehash ==
  \/ \E tags \in SslProfileLists, gnutls \in GnuTLSTags : GnuTLSReadConfig(tags, gnutls)
  \/ \E param \in {"tls", "ssl", "dns"}, tags \in SslProfileLists :
       GnuTLSOnModuleRehash(param, tags)
  \/ \E tags \in AllowChannelLists, restrictchans \in RestrictChansTags :
       RestrictChansRead(tags, restrictchans)
  \/ \E tags \in VhostLists : VHostRead(tags)

\* a server that is about to load one of the three modules
InitModules ==
  /\ InitModeParser /\ InitTimers /\ InitXLines /\ InitParser /\ InitLog /\ InitCommands
  /\ NoSets
  /\ \E loading \in ConfModules :
       modstate = [m \in ConfModules |-> IF m = loading THEN "constructed" ELSE "absent"]

SpecRehash == InitModules /\ [][NextRehash]_vars


(***************************************************************************)
(* A failed reload keeps the set in use                                     *)
(***************************************************************************)
\* the value a tag gives a key, "" when it has none
ValueOf(tag, key) ==
  IF \E i \in 1..Len(tag) : equalsci(tag[i].key, key)
  THEN tag[CHOOSE i \in 1..Len(tag) :
             /\ equalsci(tag[i].key, key)
             /\ \A j \in 1..(i - 1) : ~equalsci(tag[j].key, key)].value
  ELSE <<>>

\* an <sslprofile> tag that this module takes, and one whose profile cannot
\* be set up
TakenProfile(tag) ==
  equalsci(ValueOf(tag, KeyProvider), GnuTLS) /\ ValueOf(tag, KeyName) # <<>>
CertOf(tag) == IF ValueOf(tag, KeyCertFile) = <<>> THEN CertPem ELSE ValueOf(tag, KeyCertFile)
InvalidProfile(tag) == TakenProfile(tag) /\ CertOf(tag) \notin ReadableFiles

\* the tags of a read that the module does not accept
InvalidTag(module, tag) ==
  CASE module = "ssl_gnutls" -> InvalidProfile(tag)
    [] module = "restrictchans" -> ValueOf(tag, KeyName) = <<>>
    [] module = "vhost" ->
         \E key \in {KeyHost, KeyUser, KeyPass} : ValueOf(tag, key) = <<>>

\* the read is one that the module refuses
Refused(read) ==
  \/ \E i \in 1..Len(read.tags) : InvalidTag(read.module, read.tags[i])
  \/ read.module = "ssl_gnutls" /\ read.tags = <<>>

\* the sets of the three modules
ActiveSets == <<profiles, services, allowchans, allowregistered, vhosts>>

\* the step reads the configuration of a module
Reads == lastread'.module # "none"

\* the step reads it for a module that is loaded: a rehash
Rehashes == Reads /\ modstate[lastread'.module] = "loaded"

\* a rehash that is refused throws, leaves every set as it was and the
\* module loaded
RefusedKeeps ==
  Rehashes /\ Refused(lastread')
    => /\ lastread'.thrown
       /\ UNCHANGED ActiveSets
       /\ modstate' = modstate

\* the names of the tags a list of <sslprofile> tags gives profiles for
RECURSIVE ProfileNames(_)
ProfileNames(tags) ==
  IF tags = <<>>
  THEN <<>>
  ELSE (IF TakenProfile(Head(tags)) THEN <<ValueOf(Head(tags), KeyName)>> ELSE <<>>)
         \o ProfileNames(Tail(tags))

\* the sets are the ones that all the tags of the read describe
BuiltFrom(read) ==
  CASE read.module = "ssl_gnutls" ->
         /\ [i \in DOMAIN profiles' |-> profiles'[i].name] = ProfileNames(read.tags)
         /\ \A i \in DOMAIN profiles' :
              \E j \in DOMAIN read.tags :
                /\ profiles'[i].name = ValueOf(read.tags[j], KeyName)
                /\ profiles'[i].certstr = CertOf(read.tags[j])
         /\ \A i, j \in DOMAIN profiles' : profiles'[i].id = profiles'[j].id => i = j
         /\ Ids(profiles') \cap Ids(profiles) = {}
    [] read.module = "restrictchans" ->
         allowchans' =
           {ValueOf(read.tags[i], KeyName) : i \in
              {k \in DOMAIN read.tags :
                 \A j \in 1..(k - 1) :
                   ~equalsci(ValueOf(read.tags[j], KeyName), ValueOf(read.tags[k], KeyName))}}
    [] read.module = "vhost" ->
         /\ DOMAIN vhosts' = {ValueOf(read.tags[i], KeyUser) : i \in DOMAIN read.tags}
         /\ \A user \in DOMAIN vhosts' :
              [i \in DOMAIN vhosts'[user] |-> <<vhosts'[user][i].vhost, vhosts'[user][i].password>>]
                = LET of == SelectSeq(read.tags, LAMBDA t : ValueOf(t, KeyUser) = user)
                  IN [i \in DOMAIN of |-> <<ValueOf(of[i], KeyHost), ValueOf(of[i], KeyPass)>>]

\* a set is replaced only by a read that accepted every tag, and then by
\* the set of all the tags
ReplacedWhenAccepted ==
  /\ ActiveSets' # ActiveSets => Reads /\ ~Refused(lastread') /\ ~lastread'.thrown
  /\ Reads /\ ~Refused(lastread') => ~lastread'.thrown /\ BuiltFrom(lastread')

\* the providers that are registered are the ones of the profile list
ProfilesRegistered == services = Ids(profiles)

\* C20: when a module's ReadConfig or ReadProfiles meets an invalid tag on a
\* rehash it throws and the set that was in use (the TLS profile list and its
\* registered providers, the allow-list of restrictchans, the vhost table)
\* stays as it was; a set is replaced only by a read that accepted every
\* tag, and then by the set that all the tags describe
FailedReloadKeepsSet ==
  []ProfilesRegistered /\ [][RefusedKeeps /\ ReplacedWhenAccepted]_vars

\* the module runs with the profiles b and a; a rehash whose first tag was
\* accepted and whose second names a certificate that cannot be read has
\* thrown, and the two profiles are still the ones in use
RehashRefusedAtSecondTag ==
  /\ modstate["ssl_gnutls"] = "loaded"
  /\ lastread = Read("ssl_gnutls", <<ProfileA, ProfileNoCert>>, TRUE)
  /\ [i \in DOMAIN profiles |-> profiles[i].name] = <<NameB, NameA>>
  /\ services = Ids(profiles)


(***************************************************************************)
(* The AWAY command (CommandAway::Handle)                                   *)
(***************************************************************************)
\* the longest AWAY message of the model
MaxAwayLen == 2

RPL_UNAWAY == 305
RPL_NOWAWAY == 306

\* the messages of at most n characters
RECURSIVE AwayTexts(_)
AwayTexts(n) ==
  IF n = 0
  THEN {<<>>}
  ELSE AwayTexts(n - 1)
         \cup {Append(t, c) : t \in {x \in AwayTexts(n - 1) : Len(x) = n - 1}, c \in {"a", "b"}}
AwayMessages == AwayTexts(MaxAwayLen)

\* std::string::assign(str, 0, n): the first n characters of the string
Assign(str, n) == SubSeq(str, 1, IF Len(str) < n THEN Len(str) ELSE n)

\* the parameters Handle is called with: allow_empty_last_param is false, so
\* an empty last parameter is not handed over
HandedOver(parameters) ==
  IF parameters # <<>> /\ parameters[Len(parameters)] = <<>>
  THEN SubSeq(parameters, 1, Len(parameters) - 1)
  ELSE parameters

\* what an AWAY command comes to
AwayDone(user, parameters, res, result, numeric) ==
  [user |-> user, parameters |-> parameters, res |-> res, result |-> result,
   numeric |-> numeric]

\* CommandAway::Handle without the listeners' veto
HandleUnvetoed(user, parameters, res) ==
  IF parameters # <<>>
  THEN /\ awaytime' = [awaytime EXCEPT ![user] = Time]
       /\ awaymsg' = [awaymsg EXCEPT ![user] = Assign(parameters[1], MaxAway)]
       /\ lastaway' = AwayDone(user, parameters, res, "SUCCESS", RPL_NOWAWAY)
  ELSE /\ awaytime' = [awaytime EXCEPT ![user] = 0]
       /\ awaymsg' = [awaymsg EXCEPT ![user] = <<>>]
       /\ lastaway' = AwayDone(user, parameters, res, "SUCCESS", RPL_UNAWAY)
\* CommandAway::Handle, res being the first result of the OnUserPreAway or
\* OnUserPreBack listeners
Handle(user, parameters, res) ==
  IF parameters # <<>>
  THEN IF user = "local" /\ res = MOD_RES_DENY
       THEN /\ lastaway' = AwayDone(user, parameters, res, "FAILURE", 0)
            /\ UNCHANGED <<awaytime, awaymsg>>
       ELSE /\ awaytime' = [awaytime EXCEPT ![user] = Time]
            /\ awaymsg' = [awaymsg EXCEPT ![user] = Assign(parameters[1], MaxAway)]
            /\ lastaway' = AwayDone(user, parameters, res, "SUCCESS", RPL_NOWAWAY)
  ELSE IF user = "local" /\ res = MOD_RES_DENY
       THEN /\ lastaway' = AwayDone(user, parameters, res, "FAILURE", 0)
            /\ UNCHANGED <<awaytime, awaymsg>>
       ELSE /\ awaytime' = [awaytime EXCEPT ![user] = 0]
            /\ awaymsg' = [awaymsg EXCEPT ![user] = <<>>]
            /\ lastaway' = AwayDone(user, parameters, res, "SUCCESS", RPL_UNAWAY)

\* a user's AWAY command, with the message it carries if any
CommandAway(user, parameters, res) ==
  /\ Handle(user, HandedOver(parameters), res)
  /\ UNCHANGED <<MaxAway, nonawayvars, noncmdvars>>

NextAway ==
  \E user \in AwayUsers, parameters \in {<<>>} \cup {<<m>> : m \in AwayMessages},
     res \in {MOD_RES_PASSTHRU, MOD_RES_ALLOW, MOD_RES_DENY} :
    CommandAway(user, parameters, res)

\* the server runs at some second with some <limits:maxaway>
InitAwayServer ==
  /\ InitModeParser /\ InitXLines /\ InitParser /\ InitLog /\ InitRehash
  /\ Time \in 1..MaxClock /\ NoTimers
  /\ awaymsg = [u \in AwayUsers |-> <<>>]
  /\ awaytime = [u \in AwayUsers |-> 0]
  /\ MaxAway \in 1..MaxAwayLen
  /\ lastaway = NoAway
  /\ InitShun /\ InitBan /\ InitSethost /\ InitMerge /\ InitSa /\ InitSasl

SpecAway == InitAwayServer /\ [][NextAway]_vars


(***************************************************************************)
(* AWAY marks and unmarks                                                   *)
(***************************************************************************)
\* User::IsAway
IsAway(msgs, user) == msgs[user] # <<>>

\* the step is an AWAY command that was accepted, or one that was vetoed
AwayAccepted == lastaway'.user # "NULL" /\ lastaway'.result = "SUCCESS"
AwayVetoed == lastaway'.user # "NULL" /\ lastaway'.result = "FAILURE"

\* text is the message cut to n characters
CutTo(text, message, n) ==
  /\ Len(text) = (IF Len(message) <= n THEN Len(message) ELSE n)
  /\ \A i \in 1..Len(text) : text[i] = message[i]

\* an accepted AWAY with a message sets awaymsg and awaytime and replies 306
MessageMarks ==
  AwayAccepted /\ lastaway'.parameters # <<>>
    => /\ CutTo(awaymsg'[lastaway'.user], lastaway'.parameters[1], MaxAway)
       /\ awaytime'[lastaway'.user] = Time
       /\ lastaway'.numeric = 306

\* an accepted AWAY without a parameter clears them and replies 305
BareUnmarks ==
  AwayAccepted /\ lastaway'.parameters = <<>>
    => /\ awaymsg'[lastaway'.user] = <<>>
       /\ awaytime'[lastaway'.user] = 0
       /\ lastaway'.numeric = 305

\* a user is away after a step exactly when the step's accepted AWAY carried
\* a message, or, the step being none of the user's accepted ones, when the
\* user was away before
AwayFollowsLastAccepted ==
  \A u \in AwayUsers :
    /\ IsAway(awaymsg', u) =
         IF AwayAccepted /\ lastaway'.user = u
         THEN lastaway'.parameters # <<>>
         ELSE IsAway(awaymsg, u)
    /\ ~(AwayAccepted /\ lastaway'.user = u)
         => awaymsg'[u] = awaymsg[u] /\ awaytime'[u] = awaytime[u]

\* a local user's AWAY that a listener denies fails and changes nothing;
\* no other AWAY fails
VetoChangesNothing ==
  /\ lastaway'.user = "local" /\ lastaway'.res = MOD_RES_DENY => AwayVetoed
  /\ AwayVetoed
       => /\ lastaway'.user = "local" /\ lastaway'.res = MOD_RES_DENY
          /\ lastaway'.numeric = 0
          /\ UNCHANGED <<awaymsg, awaytime>>

\* a user is away exactly while awaytime is set
AwayTimeSet == \A u \in AwayUsers : IsAway(awaymsg, u) <=> awaytime[u] # 0

\* C21: an accepted AWAY with a message sets awaymsg to the message cut to
\* Limits.MaxAway, sets awaytime and replies 306; an accepted AWAY without a
\* parameter clears both and replies 305; a user is away exactly when the
\* last accepted AWAY of the user carried a message; an AWAY that a pre-away
\* or pre-back listener denies returns FAILURE and changes nothing
AwayToggles ==
  /\ []AwayTimeSet
  /\ [][MessageMarks /\ BareUnmarks /\ AwayFollowsLastAccepted /\ VetoChangesNothing]_vars

\* the local user went away with "ab", cut to "a" by a MaxAway of 1; the
\* AWAY without parameter that followed was denied by a listener, and the
\* user is still away
BackVetoedStillAway ==
  /\ MaxAway = 1
  /\ awaymsg["local"] = <<"a">>
  /\ awaytime["local"] = Time
  /\ lastaway = AwayDone("local", <<>>, MOD_RES_DENY, "FAILURE", 0)


(***************************************************************************)
(* m_shun: the pre-command hook of shunned users (ModuleShun)               *)
(***************************************************************************)
\* the local users of the model: a registered one, an oper with the
\* servers/ignore-shun privilege, and one that has not finished connecting
ShunUsers == {"alice", "oper", "newbie"}
RegisteredAll(user) == user # "newbie"
HasPrivPermission(user, priv) == user = "oper" /\ priv = "servers/ignore-shun"

\* Shun::Matches: the masks of the model match alice, or everybody
ShunMasks == {"alice!*@*", "*!*@*"}
ShunMatches(xmask, user) == xmask = "*!*@*" \/ (xmask = "alice!*@*" /\ user = "alice")

\* XLineManager::MatchesLine("SHUN", user)
MatchesShun(lines, user) == \E xmask \in lines : ShunMatches(xmask, user)

\* irc::insensitive_swo: two words are the same whatever their case
UpperWord(word) ==
  CASE word = "quit" -> "QUIT" [] word = "away" -> "AWAY" [] word = "whois" -> "WHOIS"
    [] OTHER -> word
SameWord(a, b) == UpperWord(a) = UpperWord(b)

\* flat_set::count and flat_set::insert with that order
Count(set, word) == \E w \in set : SameWord(w, word)
RECURSIVE InsertAll(_, _)
InsertAll(set, words) ==
  IF words = <<>>
  THEN set
  ELSE InsertAll(IF Count(set, Head(words)) THEN set ELSE set \cup {Head(words)}, Tail(words))

\* ModuleShun::IsShunned that exempts the registered users on allowconnect
IsShunnedRegisteredExempt(user) ==
  IF allowconnect /\ RegisteredAll(user)
  THEN FALSE
  ELSE IF HasPrivPermission(user, "servers/ignore-shun")
  THEN FALSE
  ELSE MatchesShun(shunlines, user)
\* ModuleShun::IsShunned
IsShunned(user) ==
  IF allowconnect /\ ~RegisteredAll(user)
  THEN FALSE
  ELSE IF HasPrivPermission(user, "servers/ignore-shun")
  THEN FALSE
  ELSE MatchesShun(shunlines, user)

\* what OnPreCommand answers and what it leaves of the parameters and tags
Hooked(res, parameters, tags, notices) ==
  [res |-> res, parameters |-> parameters, tags |-> tags, notices |-> notices]

\* OnPreCommand, lines 244-260: the parameters of a cleaned command that was
\* kept as it came
CleanedKept(command, parameters) == parameters
\* OnPreCommand, lines 244-260: the parameters of a cleaned command
Cleaned(command, parameters) ==
  IF command = "AWAY" /\ parameters # <<>>
  THEN <<>>
  ELSE IF command = "PART" /\ Len(parameters) > 1
  THEN SubSeq(parameters, 1, Len(parameters) - 1)
  ELSE IF command = "QUIT" /\ parameters # <<>>
  THEN <<>>
  ELSE parameters

\* a client tag: its name starts with '+'
IsClientTag(tag) == tag \in {"+typing"}

\* ModuleShun::OnPreCommand
OnPreCommand(command, parameters, tags, user, validated) ==
  IF validated \/ ~IsShunned(user)
  THEN Hooked(MOD_RES_PASSTHRU, parameters, tags, <<>>)
  ELSE IF ~Count(enabledcommands, command)
  THEN Hooked(MOD_RES_DENY, parameters, tags,
              IF notifyuser THEN <<<<command, "command not processed">>>> ELSE <<>>)
  ELSE Hooked(MOD_RES_PASSTHRU,
              IF Count(cleanedcommands, command) THEN Cleaned(command, parameters)
              ELSE parameters,
              IF allowtags THEN tags ELSE {t \in tags : ~IsClientTag(t)},
              <<>>)

\* what became of a command
CmdDone(user, command, parameters, tags, executed, hooked) ==
  [user |-> user, command |-> command, parameters |-> parameters, tags |-> tags,
   executed |-> executed, ran |-> hooked.parameters, rantags |-> hooked.tags,
   notices |-> hooked.notices]

\* the dispatcher: the pre-command hook before the command is validated, and
\* for a command that was not denied the hook again after it was, then the
\* handler with the parameters the hooks left
ProcessCommand(user, command, parameters, tags) ==
  /\ lastcmd' =
       LET pre == OnPreCommand(command, parameters, tags, user, FALSE)
       IN IF pre.res = MOD_RES_DENY
          THEN CmdDone(user, command, parameters, tags, FALSE, pre)
          ELSE CmdDone(user, command, parameters, tags, TRUE,
                       OnPreCommand(command, pre.parameters, pre.tags, user, TRUE))
  /\ UNCHANGED <<shunlines, cleanedcommands, enabledcommands, allowconnect, allowtags,
                 notifyuser, nonshunvars, noncmdvars>>

\* the <shun> tag: the keys it has, the values of cleanedcommands and
\* enabledcommands as their words
DefaultCleaned == <<"AWAY", "PART", "QUIT">>
DefaultEnabled == <<"ADMIN", "OPER", "PING", "PONG", "QUIT">>
ValueOr(tag, key, def) == IF key \in DOMAIN tag THEN tag[key] ELSE def

\* ModuleShun::ReadConfig: what it reads from the tag
ShunConfig(tag) ==
  [cleanedcommands |-> InsertAll({}, ValueOr(tag, "cleanedcommands", DefaultCleaned)),
   enabledcommands |->
     InsertAll({}, IF ValueOr(tag, "enabledcommands", DefaultEnabled) = <<>>
                   THEN DefaultEnabled
                   ELSE ValueOr(tag, "enabledcommands", DefaultEnabled)),
   allowtags |-> ValueOr(tag, "allowtags", FALSE),
   allowconnect |-> ValueOr(tag, "allowconnect", FALSE),
   notifyuser |-> ValueOr(tag, "notifyuser", TRUE)]

\* the module's settings are the ones read
Configured(config, cleancmds, enabled, tags, connect, notify) ==
  /\ cleancmds = config.cleanedcommands
  /\ enabled = config.enabledcommands
  /\ tags = config.allowtags
  /\ connect = config.allowconnect
  /\ notify = config.notifyuser

\* ModuleShun::ReadConfig on a rehash
ShunReadConfig(tag) ==
  /\ Configured(ShunConfig(tag), cleanedcommands', enabledcommands', allowtags',
                allowconnect', notifyuser')
  /\ lastcmd' = NoCmd
  /\ UNCHANGED <<shunlines, nonshunvars, noncmdvars>>

\* a line is added to the SHUN set, or taken out of it
ShunAdded(xmask) ==
  /\ xmask \notin shunlines
  /\ shunlines' = shunlines \cup {xmask}
  /\ lastcmd' = NoCmd
  /\ UNCHANGED <<cleanedcommands, enabledcommands, allowconnect, allowtags, notifyuser,
                 nonshunvars, noncmdvars>>
ShunRemoved(xmask) ==
  /\ xmask \in shunlines
  /\ shunlines' = shunlines \ {xmask}
  /\ lastcmd' = NoCmd
  /\ UNCHANGED <<cleanedcommands, enabledcommands, allowconnect, allowtags, notifyuser,
                 nonshunvars, noncmdvars>>

\* the <shun> tags of the model
ShunTags ==
  {<<>>,
   [k \in {"allowconnect", "notifyuser"} |-> k = "allowconnect"],
   [k \in {"enabledcommands", "allowtags"} |->
      IF k = "allowtags" THEN TRUE ELSE <<"PING", "quit">>],
   [k \in {"cleanedcommands"} |-> <<>>],
   [k \in {"cleanedcommands", "enabledcommands"} |->
      IF k = "cleanedcommands" THEN <<"quit", "PART">> ELSE <<>>],
   [k \in {"enabledcommands"} |-> <<"PING", "AWAY", "PART">>]}

\* the commands of the model
ShunVerbs == {"WHOIS", "QUIT", "AWAY", "PART", "PING"}
ShunParams == {<<>>, <<"bye bye">>, <<"#chan", "bye">>}
ShunTagSets == {{}, {"+typing", "label"}}

NextShun ==
  \/ \E user \in ShunUsers, command \in ShunVerbs, parameters \in ShunParams,
        tags \in ShunTagSets : ProcessCommand(user, command, parameters, tags)
  \/ \E tag \in ShunTags : ShunReadConfig(tag)
  \/ \E xmask \in ShunMasks : ShunAdded(xmask)
  \/ \E xmask \in ShunMasks : ShunRemoved(xmask)

\* m_shun was loaded with one of the <shun> tags; no SHUN line is set
InitShunServer ==
  /\ InitModeParser /\ InitTimers /\ InitXLines /\ InitParser /\ InitLog /\ InitRehash
  /\ InitAway /\ InitBan /\ InitSethost /\ InitMerge /\ InitSa /\ InitSasl
  /\ shunlines = {}
  /\ lastcmd = NoCmd
  /\ \E tag \in ShunTags :
       Configured(ShunConfig(tag), cleanedcommands, enabledcommands, allowtags,
                  allowconnect, notifyuser)

SpecShun == InitShunServer /\ [][NextShun]_vars


(***************************************************************************)
(* Shunned users' commands are dropped                                      *)
(***************************************************************************)
\* a command was sent in the step that led here
CommandSent == lastcmd.user # "NULL"

\* a SHUN line matches the user of the command; the user is exempt
LineMatchesSender == \E xmask \in shunlines : ShunMatches(xmask, lastcmd.user)
SenderExempt ==
  \/ allowconnect /\ lastcmd.user = "newbie"
  \/ lastcmd.user = "oper"

\* the verb is one of <shun:enabledcommands>, one of <shun:cleanedcommands>
VerbIn(words) == \E w \in words : UpperWord(w) = lastcmd.command

\* the command of a shunned user with a verb that is not enabled was not
\* executed, and the user was told so exactly when notifyuser is on
ShunnedDropped ==
  CommandSent /\ LineMatchesSender /\ ~SenderExempt /\ ~VerbIn(enabledcommands)
    => /\ ~lastcmd.executed
       /\ lastcmd.notices =
            IF notifyuser THEN <<<<lastcmd.command, "command not processed">>>> ELSE <<>>

\* the command of a user that no SHUN line matches was executed as it came
UnmatchedProcessed ==
  CommandSent /\ ~LineMatchesSender
    => /\ lastcmd.executed
       /\ lastcmd.ran = lastcmd.parameters
       /\ lastcmd.rantags = lastcmd.tags
       /\ lastcmd.notices = <<>>

\* C22: the command of a local user who matches a SHUN line and is not exempt
\* is dropped by the pre-command hook, before it is validated or executed,
\* when its verb is not in <shun:enabledcommands>, with a notice when
\* notifyuser is on; the commands of a user that no SHUN line matches are
\* processed as they come
ShunnedCommandsDropped == [](ShunnedDropped /\ UnmatchedProcessed)

\* alice matches the SHUN line alice!*@*; her WHOIS was dropped with the notice
WhoisNotProcessed ==
  /\ shunlines = {"alice!*@*"}
  /\ notifyuser
  /\ lastcmd.user = "alice" /\ lastcmd.command = "WHOIS"
  /\ ~lastcmd.executed
  /\ lastcmd.notices = <<<<"WHOIS", "command not processed">>>>

(***************************************************************************)
(* A shunned user's QUIT loses its message                                  *)
(***************************************************************************)
\* the command is a QUIT with a message
QuitWithMessage == CommandSent /\ lastcmd.command = "QUIT" /\ lastcmd.parameters # <<>>

\* the sender is shunned: a line matches and the sender is not exempt
SenderShunned == LineMatchesSender /\ ~SenderExempt

\* the QUIT was executed without its parameters
QuitCleared == lastcmd.executed /\ lastcmd.ran = <<>>

\* the QUIT was executed with the parameters it came with
QuitUntouched == lastcmd.executed /\ lastcmd.ran = lastcmd.parameters

\* every shunned user's QUIT with a message is executed without it
ShunnedQuitCleared == QuitWithMessage /\ SenderShunned => QuitCleared

\* whatever <shun> says, a shunned user's QUIT is accepted and loses its
\* message, and the QUIT of a user who is not shunned is left as it is
QuitAlwaysCleared ==
  [](ShunnedQuitCleared /\ (QuitWithMessage /\ ~SenderShunned => QuitUntouched))

\* C23: when QUIT is in <shun:enabledcommands> and in <shun:cleanedcommands>,
\* as it is by default, a shunned user's QUIT that carries a message is
\* accepted and executed with its parameters cleared; the QUIT of a user who
\* is not shunned is executed with its parameters untouched
QuitMessageCleared ==
  [](/\ QuitWithMessage /\ SenderShunned /\ VerbIn(enabledcommands)
          /\ VerbIn(cleanedcommands) => QuitCleared
     /\ QuitWithMessage /\ ~SenderShunned => QuitUntouched)

\* everybody is shunned; the QUIT :bye bye of alice was executed without its
\* parameter under a <shun> tag that spells the verb in lower case
QuitByeByeCleared ==
  /\ shunlines = {"*!*@*"}
  /\ "quit" \in cleanedcommands /\ "QUIT" \in enabledcommands
  /\ lastcmd.user = "alice" /\ lastcmd.command = "QUIT"
  /\ lastcmd.parameters = <<"bye bye">>
  /\ lastcmd.executed /\ lastcmd.ran = <<>>


(***************************************************************************)
(* m_banredirect: bans that send the banned user to another channel         *)
(***************************************************************************)
\* ListModeBase::GetLimit: the most entries the ban list of a channel takes
GetLimit == 2

ERR_BANNEDFROMCHAN == "ERR_BANNEDFROMCHAN"
ERR_BANLISTFULL == "ERR_BANLISTFULL"
ERR_NOSUCHCHANNEL == "ERR_NOSUCHCHANNEL"

\* those who set bans: a local op of #a and #b, a local op of #a alone, and
\* a remote op of both
BanSetters == {"op", "opa", "remoteop"}
OppedOn(source) == IF source = "opa" THEN {ChanA} ELSE BanChannels
BanLocal(source) == source # "remoteop"

\* ChannelManager::IsChannel: a channel prefix and at least one more character
IsChannel(name) == Len(name) >= 2 /\ name[1] = "#"

\* the parts of a mask, and the part the loop of BeforeMode is filling: the enum
\* indexes std::string mask[4] from 0, the model's tuple of parts from 1
NICK == 1
IDENT == 2
HOST == 3
CHAN == 4
Star == <<"*">>

\* BeforeMode, lines 96-122: the switch on one character of the parameter
SplitAt(param, i, st) ==
  LET filled == [st.parts EXCEPT ![st.current] = SubSeq(param, st.start_pos, i - 1)]
  IN  IF param[i] = "!" /\ st.current = NICK
      THEN [parts |-> filled, current |-> IDENT, start_pos |-> i + 1]
      ELSE IF param[i] = "@" /\ st.current = IDENT
      THEN [parts |-> filled, current |-> HOST, start_pos |-> i + 1]
      ELSE IF param[i] = "#" /\ st.current # CHAN
      THEN [parts |-> filled, current |-> CHAN, start_pos |-> i]
      ELSE st

RECURSIVE SplitLoop(_, _, _)
SplitLoop(param, i, st) ==
  IF i > Len(param) THEN st ELSE SplitLoop(param, i + 1, SplitAt(param, i, st))

\* BeforeMode, lines 77-127: the four parts of the parameter
Split(param) ==
  LET st == SplitLoop(param, 1, [parts |-> <<<<>>, <<>>, <<>>, <<>>>>,
                                 current |-> NICK, start_pos |-> 1])
  IN  IF st.parts[st.current] = <<>>
      THEN [st.parts EXCEPT ![st.current] = SubSeq(param, st.start_pos, Len(param))]
      ELSE st.parts

Swapped(parts, i, j) == [parts EXCEPT ![i] = parts[j], ![j] = parts[i]]
Has(str, ch) == \E i \in 1..Len(str) : str[i] = ch

\* BeforeMode, lines 129-150: nick@host and bare hosts put right, and a star
\* for each empty part
Arranged(parts) ==
  LET first == IF parts[NICK] # <<>> /\ parts[HOST] # <<>> /\ parts[IDENT] = <<>>
               THEN Swapped(parts, NICK, IDENT) ELSE parts
      second == IF /\ first[NICK] # <<>> /\ first[IDENT] = <<>> /\ first[HOST] = <<>>
                   /\ (Has(first[NICK], ".") \/ Has(first[NICK], ":"))
                THEN Swapped(first, NICK, HOST) ELSE first
  IN  [i \in 1..4 |-> IF i < CHAN /\ second[i] = <<>> THEN Star ELSE second[i]]

\* BeforeMode, line 152: the parameter without the channel
Joined(parts) == parts[NICK] \o <<"!">> \o parts[IDENT] \o <<"@">> \o parts[HOST]

BanRedirectEntry(target, banmask) == [targetchan |-> target, banmask |-> banmask]
SameEntry(redirect, target, banmask) ==
  redirect.targetchan = target /\ redirect.banmask = banmask

\* std::vector::erase of the first entry that is the same
RECURSIVE EraseEntry(_, _, _)
EraseEntry(list, target, banmask) ==
  IF list = <<>> THEN <<>>
  ELSE IF SameEntry(Head(list), target, banmask) THEN Tail(list)
  ELSE <<Head(list)>> \o EraseEntry(Tail(list), target, banmask)

\* what BeforeMode answers, the parameter and the redirects it leaves, and
\* the numerics it wrote
Watched(ok, param, list, numerics) ==
  [ok |-> ok, param |-> param, redirects |-> list, numerics |-> numerics]

\* BeforeMode, lines 154-241: a parameter that names a channel
WithTarget(source, channel, adding, param, target, list) ==
  IF adding /\ BanLocal(source) /\ ~IsChannel(target)
  THEN Watched(FALSE, param, list, <<ERR_NOSUCHCHANNEL>>)
  ELSE IF adding /\ BanLocal(source) /\ target \notin BanChannels
  THEN Watched(FALSE, param, list, <<"690">>)
  ELSE IF adding /\ BanLocal(source) /\ target \notin OppedOn(source)
  THEN Watched(FALSE, param, list, <<"690">>)
  ELSE IF adding /\ BanLocal(source) /\ channel = target
  THEN Watched(FALSE, param, list, <<"690">>)
  ELSE IF adding
  THEN IF \E i \in 1..Len(list) : SameEntry(list[i], target, param)
       THEN Watched(TRUE, param \o target, list, <<>>)
       ELSE Watched(TRUE, param \o target,
                    Append(list, BanRedirectEntry(target, param)), <<>>)
  ELSE Watched(TRUE, param \o target, EraseEntry(list, target, param), <<>>)

\* BeforeMode that hands on the parameter without the channel
BanRedirectBeforeModeBare(source, channel, adding, param, bans, list) ==
  LET parts == Arranged(Split(param))
      found == WithTarget(source, channel, adding, Joined(parts), parts[CHAN], list)
  IN  IF param = <<>> THEN Watched(TRUE, param, list, <<>>)
      ELSE IF Len(param) >= 2 /\ param[2] = ":" THEN Watched(TRUE, param, list, <<>>)
      ELSE IF ~Has(param, "#") THEN Watched(TRUE, param, list, <<>>)
      ELSE IF adding /\ GetLimit <= Len(bans)
      THEN Watched(FALSE, param, list, <<ERR_BANLISTFULL>>)
      ELSE IF parts[CHAN] # <<>>
      THEN [found EXCEPT !.param = IF found.ok THEN Joined(parts) ELSE found.param]
      ELSE Watched(TRUE, Joined(parts), list, <<>>)
\* BeforeMode that does not look at the length of the ban list
BanRedirectBeforeModeAnyLength(source, channel, adding, param, bans, list) ==
  LET parts == Arranged(Split(param))
  IN  IF param = <<>> THEN Watched(TRUE, param, list, <<>>)
      ELSE IF Len(param) >= 2 /\ param[2] = ":" THEN Watched(TRUE, param, list, <<>>)
      ELSE IF ~Has(param, "#") THEN Watched(TRUE, param, list, <<>>)
      ELSE IF parts[CHAN] # <<>>
      THEN WithTarget(source, channel, adding, Joined(parts), parts[CHAN], list)
      ELSE Watched(TRUE, Joined(parts), list, <<>>)

\* BanRedirect::BeforeMode
BanRedirectBeforeMode(source, channel, adding, param, bans, list) ==
  LET parts == Arranged(Split(param))
  IN  IF param = <<>> THEN Watched(TRUE, param, list, <<>>)
      ELSE IF Len(param) >= 2 /\ param[2] = ":" THEN Watched(TRUE, param, list, <<>>)
      ELSE IF ~Has(param, "#") THEN Watched(TRUE, param, list, <<>>)
      ELSE IF adding /\ GetLimit <= Len(bans)
      THEN Watched(FALSE, param, list, <<ERR_BANLISTFULL>>)
      ELSE IF parts[CHAN] # <<>>
      THEN WithTarget(source, channel, adding, Joined(parts), parts[CHAN], list)
      ELSE Watched(TRUE, Joined(parts), list, <<>>)

\* ListModeBase::OnModeChange: the list after the change, and whether the
\* change was allowed
ListChanged(bans, adding, param) ==
  LET held == \E i \in 1..Len(bans) : bans[i] = param
  IN  IF adding
      THEN IF held \/ Len(bans) >= GetLimit
           THEN [allowed |-> FALSE, list |-> bans]
           ELSE [allowed |-> TRUE, list |-> Append(bans, param)]
      ELSE IF held
           THEN [allowed |-> TRUE, list |-> SelectSeq(bans, LAMBDA b : b # param)]
           ELSE [allowed |-> FALSE, list |-> bans]

\* what became of a ban change
BanDone(source, channel, adding, param, watched, changed) ==
  [source |-> source, channel |-> channel, adding |-> adding, param |-> param,
   handed |-> watched.param, allowed |-> watched.ok /\ changed.allowed,
   numerics |-> watched.numerics, full |-> Len(banlist[channel]) >= GetLimit]

\* ModeParser::TryMode for a ban change of an op of the channel: the watcher
\* and then the handler of the list mode
BanTryMode(source, channel, adding, param) ==
  LET watched == BanRedirectBeforeMode(source, channel, adding, param,
                                       banlist[channel], redirects[channel])
      changed == IF watched.ok THEN ListChanged(banlist[channel], adding, watched.param)
                 ELSE [allowed |-> FALSE, list |-> banlist[channel]]
  IN  /\ joinstack = <<>>
      /\ channel \in OppedOn(source)
      /\ redirects' = [redirects EXCEPT ![channel] = watched.redirects]
      /\ banlist' = [banlist EXCEPT ![channel] = changed.list]
      /\ lastban' = BanDone(source, channel, adding, param, watched, changed)
      /\ lastjoin' = NoJoin
      /\ UNCHANGED <<nofollow, joinstack, nonbanvars, noncmdvars>>


\* those who join: n matches n!*@*, m does not
JoinUsers == {"n", "m"}
GetFullHost(user) == <<user, "!", "u", "@", "h">>
GetFullRealHost(user) == <<user, "!", "u", "@", "r">>
MakeIpMask(user) == <<user, "!", "u", "@", "i">>

\* InspIRCd::Match: glob matching with * and ?
RECURSIVE GlobMatch(_, _)
GlobMatch(str, pat) ==
  IF pat = <<>> THEN str = <<>>
  ELSE IF Head(pat) = "*"
  THEN GlobMatch(str, Tail(pat)) \/ (str # <<>> /\ GlobMatch(Tail(str), pat))
  ELSE /\ str # <<>>
       /\ Head(pat) = "?" \/ Head(pat) = Head(str)
       /\ GlobMatch(Tail(str), Tail(pat))

\* OnUserPreJoin, line 315: the ban mask of a redirect matches the user
RedirectMatches(user, redir) ==
  \/ GlobMatch(GetFullRealHost(user), redir.banmask)
  \/ GlobMatch(GetFullHost(user), redir.banmask)
  \/ GlobMatch(MakeIpMask(user), redir.banmask)

\* the first redirect of the list that matches the user, 0 when none does
FirstMatch(user, list) ==
  IF \E i \in 1..Len(list) : RedirectMatches(user, list[i])
  THEN CHOOSE i \in 1..Len(list) :
         /\ RedirectMatches(user, list[i])
         /\ \A j \in 1..(i - 1) : ~RedirectMatches(user, list[j])
  ELSE 0

\* what OnUserPreJoin has done when it returns or calls Channel::JoinUser:
\* its result, the numerics it wrote and the channel it sends the user to
PreJoined(res, numerics, target) ==
  [res |-> res, numerics |-> numerics, target |-> target]

\* ModuleBanRedirect::OnUserPreJoin that never looks at nofollow
OnUserPreJoinFollowing(user, chan, override, exception, destfull, following) ==
  LET list == redirects[chan]
      found == FirstMatch(user, list)
      target == list[found].targetchan
  IN  IF override \/ chan \notin BanChannels THEN PreJoined(MOD_RES_PASSTHRU, <<>>, NULL)
      ELSE IF list = <<>> THEN PreJoined(MOD_RES_PASSTHRU, <<>>, NULL)
      ELSE IF exception THEN PreJoined(MOD_RES_PASSTHRU, <<>>, NULL)
      ELSE IF found = 0 THEN PreJoined(MOD_RES_PASSTHRU, <<>>, NULL)
      ELSE IF target \in BanChannels /\ destfull
      THEN PreJoined(MOD_RES_DENY, <<<<ERR_BANNEDFROMCHAN, chan>>>>, NULL)
      ELSE PreJoined(MOD_RES_DENY, <<<<ERR_BANNEDFROMCHAN, chan>>, <<"470", chan, target>>>>,
                     target)
\* ModuleBanRedirect::OnUserPreJoin up to its return or to its call of
\* Channel::JoinUser
OnUserPreJoin(user, chan, override, exception, destfull, following) ==
  LET list == redirects[chan]
      found == FirstMatch(user, list)
      target == list[found].targetchan
  IN  IF override \/ chan \notin BanChannels THEN PreJoined(MOD_RES_PASSTHRU, <<>>, NULL)
      ELSE IF list = <<>> THEN PreJoined(MOD_RES_PASSTHRU, <<>>, NULL)
      ELSE IF exception THEN PreJoined(MOD_RES_PASSTHRU, <<>>, NULL)
      ELSE IF found = 0 THEN PreJoined(MOD_RES_PASSTHRU, <<>>, NULL)
      ELSE IF following THEN PreJoined(MOD_RES_DENY, <<>>, NULL)
      ELSE IF target \in BanChannels /\ destfull
      THEN PreJoined(MOD_RES_DENY, <<<<ERR_BANNEDFROMCHAN, chan>>>>, NULL)
      ELSE PreJoined(MOD_RES_DENY, <<<<ERR_BANNEDFROMCHAN, chan>>, <<"470", chan, target>>>>,
                     target)

Frame(chan, waiting) == [chan |-> chan, waiting |-> waiting]
Joining == joinstack[Len(joinstack)]
Popped == SubSeq(joinstack, 1, Len(joinstack) - 1)

\* a user sends JOIN: Channel::JoinUser is called.  The answers of the
\* OnCheckChannelBan hooks and the room in the target are chosen here.
JoinCommand(user, cname, override, exception, nested, destfull) ==
  /\ joinstack = <<>>
  /\ joinstack' = <<Frame(cname, FALSE)>>
  /\ lastjoin' = [user |-> user, chan |-> cname, override |-> override,
                  exception |-> exception, nested |-> nested, destfull |-> destfull,
                  numerics |-> <<>>, issued |-> <<cname>>, joined |-> <<>>]
  /\ lastban' = NoBan
  /\ UNCHANGED <<banlist, redirects, nofollow, nonbanvars, noncmdvars>>

\* Channel::JoinUser asks OnUserPreJoin, which returns (the user joins on
\* PASSTHRU) or sets nofollow and calls Channel::JoinUser for the target
JoinUser ==
  /\ joinstack # <<>> /\ ~Joining.waiting
  /\ LET outer == Len(joinstack) = 1
         out == OnUserPreJoin(lastjoin.user, Joining.chan,
                              outer /\ lastjoin.override,
                              IF outer THEN lastjoin.exception ELSE lastjoin.nested,
                              lastjoin.destfull, nofollow)
     IN  IF out.target # NULL
         THEN /\ nofollow' = TRUE
              /\ joinstack' = Append([joinstack EXCEPT ![Len(joinstack)].waiting = TRUE],
                                     Frame(out.target, FALSE))
              /\ lastjoin' = [lastjoin EXCEPT !.numerics = @ \o out.numerics,
                                              !.issued = Append(@, out.target)]
         ELSE /\ nofollow' = nofollow
              /\ joinstack' = Popped
              /\ lastjoin' = [lastjoin EXCEPT
                                !.numerics = @ \o out.numerics,
                                !.joined = IF out.res = MOD_RES_DENY THEN @
                                           ELSE Append(@, Joining.chan)]
  /\ UNCHANGED <<banlist, redirects, lastban, nonbanvars, noncmdvars>>

\* OnUserPreJoin, lines 344-346: the redirected JOIN has returned; nofollow
\* is cleared and the join is denied
JoinUserReturn ==
  /\ joinstack # <<>> /\ Joining.waiting
  /\ nofollow' = FALSE
  /\ joinstack' = Popped
  /\ UNCHANGED <<banlist, redirects, lastban, lastjoin, nonbanvars, noncmdvars>>

\* the ban parameters that are sent
BanN == <<"n", "!", "*", "@", "*">>
BanParams == {BanN \o ChanB, BanN \o ChanA, <<"n">> \o ChanC}

NextBan ==
  \/ \E source \in BanSetters, channel \in BanChannels, adding \in BOOLEAN,
        param \in BanParams : BanTryMode(source, channel, adding, param)
  \/ \E user \in JoinUsers, cname \in BanChannels,
        override, exception, nested, destfull \in BOOLEAN :
       JoinCommand(user, cname, override, exception, nested, destfull)
  \/ JoinUser
  \/ JoinUserReturn

\* a JOIN that was sent runs to its end
SpecBan == InitServer /\ [][NextBan]_vars /\ WF_vars(JoinUser \/ JoinUserReturn)


(***************************************************************************)
(* A redirecting ban is stored with its target and noted in the side table  *)
(***************************************************************************)
\* an op of #a and #b has sent MODE #a +b n!*@*#b
RedirectBanSent ==
  /\ lastban.source \in {"op", "remoteop"}
  /\ lastban.channel = ChanA /\ lastban.adding
  /\ lastban.param = BanN \o ChanB

HoldsBan(chan, ban) == \E i \in 1..Len(banlist[chan]) : banlist[chan][i] = ban
Mappings(chan, banmask, target) ==
  {i \in 1..Len(redirects[chan]) : SameEntry(redirects[chan][i], target, banmask)}

\* the ban n!*@* is what is stored, and the side table maps it to #b
BareMaskStored ==
  [](RedirectBanSent =>
       /\ lastban.handed = BanN
       /\ HoldsBan(ChanA, BanN)
       /\ Mappings(ChanA, BanN, ChanB) # {})

\* C24: when an op of #a and #b sets MODE #a +b n!*@*#b, #b exists and the
\* ban list of #a is not full, the parameter handed to the ban list is
\* n!*@*#b, the ban list of #a holds n!*@*#b, and the side table of #a maps
\* the mask n!*@* to #b in exactly one entry
RedirectBanStored ==
  [](RedirectBanSent /\ ~lastban.full =>
       /\ lastban.handed = BanN \o ChanB
       /\ HoldsBan(ChanA, BanN \o ChanB)
       /\ Cardinality(Mappings(ChanA, BanN, ChanB)) = 1)

\* the local op has set the redirecting ban on #a, which had no ban
FirstRedirectBanSet ==
  /\ lastban.source = "op" /\ RedirectBanSent /\ lastban.allowed
  /\ banlist[ChanA] = <<BanN \o ChanB>>
  /\ redirects[ChanA] = <<BanRedirectEntry(ChanB, BanN)>>

(***************************************************************************)
(* A banned user is redirected once                                         *)
(***************************************************************************)
JoinDone == lastjoin.user # "NULL" /\ joinstack = <<>>

\* the user of the JOIN matches a redirecting ban of the channel
MatchIn(chan) ==
  IF chan \in BanChannels THEN FirstMatch(lastjoin.user, redirects[chan]) ELSE 0
TargetOf(chan) == redirects[chan][MatchIn(chan)].targetchan
BannedWithRedirect ==
  lastjoin.user # "NULL" /\ ~lastjoin.override /\ MatchIn(lastjoin.chan) # 0

\* the target is a channel with the redirect mode that has reached its limit
TargetFull == TargetOf(lastjoin.chan) \in BanChannels /\ lastjoin.destfull

Redirected ==
  /\ lastjoin.numerics = <<<<ERR_BANNEDFROMCHAN, lastjoin.chan>>,
                           <<"470", lastjoin.chan, TargetOf(lastjoin.chan)>>>>
  /\ lastjoin.issued = <<lastjoin.chan, TargetOf(lastjoin.chan)>>

\* the redirected JOIN met a matching redirect ban and was denied, or it met
\* none and the user is in the target
TargetJoinedUnlessBanned ==
  lastjoin.joined =
    IF MatchIn(TargetOf(lastjoin.chan)) # 0 /\ ~lastjoin.nested
    THEN <<>> ELSE <<TargetOf(lastjoin.chan)>>

\* every JOIN of a user who matches a redirecting ban is denied and redirected
AlwaysRedirected ==
  [](JoinDone /\ BannedWithRedirect =>
       /\ Redirected
       /\ \A i \in 1..Len(lastjoin.joined) : lastjoin.joined[i] # lastjoin.chan)

\* nofollow is set exactly while a redirected JOIN runs
GuardWhileRedirected ==
  nofollow <=> (joinstack # <<>> /\ joinstack[1].waiting)

\* no JOIN causes more than one further JOIN
OneRedirect == Len(lastjoin.issued) <= 2 /\ Len(joinstack) <= 2

\* C25: when a local user who matches a redirecting ban of #a joins #a
\* without override, no ban exception is granted and the target is not a
\* full channel with the redirect mode, the join of #a is denied, the user
\* is sent 474 and 470 and a JOIN of the target is issued; nofollow is set
\* while that JOIN runs, so that a matching redirect ban met in it (with no
\* exception) denies it; no JOIN causes more than one redirect, and every
\* JOIN ends with nofollow cleared
RedirectedOnce ==
  /\ [](JoinDone /\ BannedWithRedirect /\ ~lastjoin.exception /\ ~TargetFull =>
          Redirected /\ TargetJoinedUnlessBanned)
  /\ []((lastjoin.user # "NULL" => OneRedirect) /\ GuardWhileRedirected)
  /\ (joinstack # <<>>) ~> (joinstack = <<>> /\ ~nofollow)

\* #a redirects n to #b and #b redirects n to #a; n has sent JOIN #a and was
\* denied in both
CycleDeniedTwice ==
  /\ Mappings(ChanA, BanN, ChanB) # {} /\ Mappings(ChanB, BanN, ChanA) # {}
  /\ JoinDone /\ lastjoin.user = "n" /\ lastjoin.chan = ChanA
  /\ Redirected /\ lastjoin.joined = <<>>
  /\ ~nofollow


(***************************************************************************)
(* m_sethost: SETHOST                                                       *)
(***************************************************************************)
\* the longest host that is sent
MaxHostChars == 2

\* ModuleSetHost::ReadConfig, line 84: the charmap of a <hostname> tag that
\* has none
DefaultCharmap ==
  <<"A", "B", "C", "D", "E", "F", "G", "H", "I", "J", "K", "L", "M",
    "N", "O", "P", "Q", "R", "S", "T", "U", "V", "W", "X", "Y", "Z",
    "a", "b", "c", "d", "e", "f", "g", "h", "i", "j", "k", "l", "m",
    "n", "o", "p", "q", "r", "s", "t", "u", "v", "w", "x", "y", "z",
    ".", "-", "_", "/", "0", "1", "2", "3", "4", "5", "6", "7", "8", "9">>

\* ModuleSetHost::ReadConfig: the characters of the charmap, which is the
\* default when the tag gives none or an empty one
HostmapOf(tag) ==
  LET given == ValueOr(tag, "charmap", DefaultCharmap)
      hmap == IF Len(given) < 1 THEN DefaultCharmap ELSE given
  IN  {hmap[i] : i \in 1..Len(hmap)}

\* User::ChangeDisplayedHost: the displayed hosts after the change
ChangeDisplayedHost(user, host) == [displayedhost EXCEPT ![user] = host]

\* what became of a SETHOST
SethostDone(user, host, result, notices, snotices) ==
  [user |-> user, host |-> host, before |-> displayedhost[user], result |-> result,
   notices |-> notices, snotices |-> snotices]

\* CommandSethost::Handle that does not look at the characters
SethostHandleAnyChars(user, parameters) ==
  IF Len(parameters[1]) > MaxHost
  THEN /\ lastsethost' = SethostDone(user, parameters[1], "FAILURE",
                                     <<"*** SETHOST: Host too long">>, <<>>)
       /\ UNCHANGED displayedhost
  ELSE /\ displayedhost' = ChangeDisplayedHost(user, parameters[1])
       /\ lastsethost' = SethostDone(user, parameters[1], "SUCCESS", <<>>,
                                     <<<<"a", user, displayedhost'[user]>>>>)
\* CommandSethost::Handle
SethostHandle(user, parameters) ==
  IF Len(parameters[1]) > MaxHost
  THEN /\ lastsethost' = SethostDone(user, parameters[1], "FAILURE",
                                     <<"*** SETHOST: Host too long">>, <<>>)
       /\ UNCHANGED displayedhost
  ELSE IF \E i \in 1..Len(parameters[1]) : parameters[1][i] \notin hostmap
  THEN /\ lastsethost' = SethostDone(user, parameters[1], "FAILURE",
                                     <<"*** SETHOST: Invalid characters in hostname">>, <<>>)
       /\ UNCHANGED displayedhost
  ELSE /\ displayedhost' = ChangeDisplayedHost(user, parameters[1])
       /\ lastsethost' = SethostDone(user, parameters[1], "SUCCESS", <<>>,
                                     <<<<"a", user, displayedhost'[user]>>>>)

\* an oper sends SETHOST <host>
CommandSethost(user, host) ==
  /\ SethostHandle(user, <<host>>)
  /\ UNCHANGED <<hostmap, MaxHost, nonsethostvars, noncmdvars>>

\* the configuration is read: <hostname charmap>
SethostReadConfig(tag) ==
  /\ hostmap' = HostmapOf(tag)
  /\ lastsethost' = NoSethost
  /\ UNCHANGED <<MaxHost, displayedhost, nonsethostvars, noncmdvars>>

\* the <hostname> tags and the hosts of the model
HostnameTags ==
  {<<>>, [k \in {"charmap"} |-> <<>>], [k \in {"charmap"} |-> <<"f", ".">>],
   [k \in {"charmap"} |-> <<"F", "f">>]}
SentHosts == StringsUpTo({"f", "F", "."}, MaxHostChars) \ {<<>>}

NextSethost ==
  \/ \E user \in SethostUsers, host \in SentHosts : CommandSethost(user, host)
  \/ \E tag \in HostnameTags : SethostReadConfig(tag)

\* m_sethost is loaded: it has read its configuration
InitSethostServer ==
  /\ InitModeParser /\ InitTimers /\ InitXLines /\ InitParser /\ InitLog /\ InitRehash
  /\ InitAway /\ InitShun /\ InitBan /\ InitMerge /\ InitSa /\ InitSasl
  /\ \E tag \in HostnameTags : hostmap = HostmapOf(tag)
  /\ MaxHost \in 1..MaxHostChars
  /\ displayedhost = [u \in SethostUsers |-> OldHost]
  /\ lastsethost = NoSethost

SpecSethost == InitSethostServer /\ [][NextSethost]_vars

\* the host of the last SETHOST is too long or has a character that is not
\* in the charmap
SethostSent == lastsethost.user # "NULL"
HostInvalid ==
  \/ Len(lastsethost.host) > MaxHost
  \/ \E i \in 1..Len(lastsethost.host) : lastsethost.host[i] \notin hostmap

SethostRejected ==
  /\ lastsethost.result = "FAILURE"
  /\ Len(lastsethost.notices) = 1
  /\ lastsethost.snotices = <<>>
  /\ displayedhost[lastsethost.user] = lastsethost.before

SethostChanged ==
  /\ lastsethost.result = "SUCCESS"
  /\ lastsethost.notices = <<>>
  /\ displayedhost[lastsethost.user] = lastsethost.host
  /\ lastsethost.snotices = <<<<"a", lastsethost.user, lastsethost.host>>>>

HoldsOn(nick) ==
  {k \in 1..Len(xlines["SVSHOLD"]) : LowerNick(xlines["SVSHOLD"][k].mask) = LowerNick(nick)}
NickSent == "kind" \in DOMAIN xreply /\ xreply.kind = "NICK"

\* a NICK to a held nick was denied with 432 and the reason of the hold, and
\* a NICK to a nick that is not held passed
HeldNickDenied ==
  NickSent =>
    IF HoldsOn(xreply.nick) # {}
    THEN /\ xreply.result = MOD_RES_DENY
         /\ \E k \in HoldsOn(xreply.nick) :
              xreply.wrote = <<<<ERR_ERRONEUSNICKNAME, xreply.nick,
                                 "Services reserved nickname: ", xlines["SVSHOLD"][k].reason>>>>
    ELSE xreply.result = MOD_RES_PASSTHRU /\ xreply.wrote = <<>>

\* an SVSHOLD that does not come from a services server fails and leaves the
\* set as it was
SvsholdOfOthersFails ==
  ("kind" \in DOMAIN xreply' /\ xreply'.kind = "SVSHOLD" /\ xreply'.user # "services")
    => xreply'.result = "FAILURE" /\ xreply'.wrote = <<>> /\ xlines' = xlines

\* C27: while an SVSHOLD for N is in the set, every NICK of a local user to a
\* nick that matches N is denied with 432 'Services reserved nickname:
\* <reason>'; an SVSHOLD command from a source that is not a services server
\* fails and adds or removes nothing
HeldNickRefused == []HeldNickDenied /\ [][SvsholdOfOthersFails]_vars

\* services hold the nick a; NICK A of a local user was denied with the reason
NickADenied ==
  /\ Len(xlines["SVSHOLD"]) = 1
  /\ xlines["SVSHOLD"][1].mask = "a" /\ xlines["SVSHOLD"][1].source = "services"
  /\ NickSent /\ xreply.nick = "A"
  /\ xreply.result = MOD_RES_DENY
  /\ xreply.wrote = <<Reserved("A", "reason")>>


(***************************************************************************)
(* Process goes over every Change once and returns                          *)
(***************************************************************************)
\* the longest ChangeList of these calls
MaxPassLen == 3

\* the ChangeLists of up to MaxPassLen Changes: the flag set and unset, the
\* key set, and a key that is not valid
PassChanges == ListChanges \cup {Change("h_k", TRUE, <<":">>)}
PassLists == StringsUpTo(PassChanges, MaxPassLen)
PassInputs == {Input("srv", "#a", NULL, l, {MODE_LOCALONLY}, NoHook) : l \in PassLists}

\* as InitProcess, with every MaxModes from 0 on
InitPasses ==
  /\ InitStdRegistry /\ InitProc /\ InitClean /\ InitOther
  /\ InitWorld({"x", "y"}, {"#a"}, [c \in {"#a"} |-> {"x", "y"}])
  /\ MaxModes \in 0..MaxPassLen
  /\ modewatchermap = AddModeWatcher(AddModeWatcher(<<>>, "w_pass"), "w_veto")
  /\ LastChangeList = <<>>

NextPasses ==
  \/ \E c \in PassInputs : ProcessCall(c)
  \/ ProcessNextPass
  \/ ProcessReturn

\* the loop of Process ends when its condition fails
SpecPasses == InitPasses /\ [][NextPasses]_vars /\ WF_vars(ProcessReturn)

\* where the pass of this step started
PassFrom == IF call = NoCall THEN 0 ELSE processed

\* a pass goes over at least one Change when Changes are left, so that
\* fewer are left after it
PassAdvances ==
  IsPassStep /\ PassFrom < Len(call'.list) => processed' > PassFrom

\* the loop goes on only while Changes are left
LoopWhileLeft ==
  call # NoCall /\ call' = call /\ processed' # processed => processed < Len(call.list)

\* a pass goes over the Changes from where the pass before stopped, one after
\* the other, each once
PassInListOrder ==
  IsPassStep =>
    /\ Len(passlog') = processed' - PassFrom
    /\ processed' <= Len(call'.list)
    /\ \A i \in 1..Len(passlog') : passlog'[i].change = call'.list[PassFrom + i]

\* the one pass over an empty ChangeList has sent nothing, and no other pass
\* follows it
EmptyListQuiet ==
  call # NoCall /\ call.list = <<>> =>
    processed = 0 /\ passlog = <<>> /\ LastChangeList = <<>> /\ sent = <<>>
EmptyListReturns ==
  call # NoCall /\ call.list = <<>> => call' = NoCall

\* C28: Process terminates for every ChangeList and every MaxModes: each
\* ProcessSingle pass goes over at least one Change while Changes are left,
\* the passes go over the Changes of the list in order and each Change once,
\* and an empty ChangeList makes exactly one pass, which emits nothing
ProcessTerminates ==
  /\ [][PassAdvances /\ LoopWhileLeft /\ PassInListOrder /\ EmptyListReturns]_vars
  /\ []EmptyListQuiet
  /\ (call # NoCall /\ processed >= Len(call.list)) ~> (call = NoCall)

\* MaxModes is 0: the third pass over three Changes has gone over the last
ThirdPassOfThree ==
  /\ MaxModes = 0
  /\ call # NoCall /\ Len(call.list) = 3
  /\ processed = 3 /\ Len(passlog) = 1
  /\ passlog[1].change = call.list[3]

(***************************************************************************)
(* Two servers merge each other's parameter mode                            *)
(***************************************************************************)
Servers == {"A", "B"}
Peer(s) == IF s = "A" THEN "B" ELSE "A"

\* nothing is left to merge
Merged == <<"merged">>

\* the parameters the two servers may hold before the link
MergeChars == {"1", "A", "Z", "a", "b", "z"}
MergeParams == StringsUpTo(MergeChars, MODE_PARAM_MAX) \ {<<>>}

\* the channel with no mode set, as a value
EmptyChannel ==
  [usermodes |-> [u \in {"x", "y"} |-> {}],
   chanmodes |-> [c \in {"#a"} |-> {}],
   chanparams |-> [c \in {"#a"} |-> [h \in Handlers |-> <<>>]],
   chanlists |-> [c \in {"#a"} |-> [h \in Handlers |-> <<>>]],
   memberships |-> [c \in {"#a"} |-> [u \in {"x", "y"} |-> {}]]]

\* the parameter of the mode on a server's channel
ParamAt(s) == GetModeParameter(servermodes[s], "#a", "h_k")

\* both servers hold the channel with no mode set and are not linked
InitUnlinked ==
  /\ InitStdRegistry /\ InitProc /\ InitClean
  /\ InitTimers /\ InitXLines /\ InitParser /\ InitLog /\ InitRehash
  /\ InitAway /\ InitShun /\ InitBan /\ InitSethost /\ InitSa /\ InitSasl
  /\ InitWorld({"x", "y"}, {"#a"}, [c \in {"#a"} |-> {"x", "y"}])
  /\ MaxModes \in MaxModesValues
  /\ modewatchermap = <<>>
  /\ LastChangeList = <<>>
  /\ servermodes = [s \in Servers |-> EmptyChannel]
  /\ burst = [s \in Servers |-> <<>>]
  /\ inflight = [s \in Servers |-> <<>>]

\* before the link, server s sets +k param on its channel
SetAt(s, param) ==
  /\ burst[s] = <<>>
  /\ servermodes' =
       [servermodes EXCEPT ![s] =
          Process(servermodes[s], FakeClient, "#a", NULL,
                  <<Change("h_k", TRUE, param)>>, {MODE_LOCALONLY}, NoHook).W]
  /\ burst' = [burst EXCEPT ![s] = param]
  /\ UNCHANGED <<inflight, modevars, noncmdvars, nonmergevars>>

\* the link comes up: each side's parameter travels to the other
Link ==
  /\ \A s \in Servers : burst[s] # <<>> /\ inflight[s] = <<>>
  /\ inflight' = [s \in Servers |-> ParamAt(Peer(s))]
  /\ UNCHANGED <<servermodes, burst, modevars, noncmdvars, nonmergevars>>

\* server s processes the other side's +k as a merge-mode change
MergeAt(s) ==
  /\ inflight[s] \notin {<<>>, Merged}
  /\ servermodes' =
       [servermodes EXCEPT ![s] =
          Process(servermodes[s], FakeClient, "#a", NULL,
                  <<Change("h_k", TRUE, inflight[s])>>, {MODE_MERGE}, NoHook).W]
  /\ inflight' = [inflight EXCEPT ![s] = Merged]
  /\ UNCHANGED <<burst, modevars, noncmdvars, nonmergevars>>

NextMerge ==
  \/ \E s \in Servers, param \in MergeParams : SetAt(s, param)
  \/ Link
  \/ \E s \in Servers : MergeAt(s)

SpecMerge == InitUnlinked /\ [][NextMerge]_vars

\* the lexicographically smaller of two parameters
Smaller(p, q) == IF StrLess(q, p) THEN q ELSE p

\* a server holds its own parameter until it merges, and the smaller one after
HoldsSmaller(s) ==
  ParamAt(s) = IF inflight[s] = Merged THEN Smaller(burst["A"], burst["B"]) ELSE burst[s]

\* what travels is what the other side held
SentAsHeld(s) == inflight[s] \notin {<<>>, Merged} => inflight[s] = burst[Peer(s)]

(***************************************************************************)
(* C29: server A has the parameter mode set to p and server B to q on the   *)
(* same channel; once each has processed the other's +X as a merge-mode     *)
(* change, both hold the same parameter, the lexicographically smaller of   *)
(* p and q, whichever merge was processed first.                            *)
(***************************************************************************)
MergeConverges ==
  /\ \A s \in Servers : HoldsSmaller(s) /\ SentAsHeld(s)
  /\ (\A s \in Servers : inflight[s] = Merged) =>
       /\ ParamAt("A") = ParamAt("B")
       /\ ParamAt("A") = Smaller(burst["A"], burst["B"])
       /\ ParamAt("A") \in {burst["A"], burst["B"]}
       /\ ~StrLess(burst["A"], ParamAt("A")) /\ ~StrLess(burst["B"], ParamAt("A"))

\* A held b and B held a; B merged first and kept a, then A took a
BothHoldA ==
  /\ burst = [s \in Servers |-> IF s = "A" THEN <<"b">> ELSE <<"a">>]
  /\ \A s \in Servers : inflight[s] = Merged
  /\ ParamAt("A") = <<"a">> /\ ParamAt("B") = <<"a">>

(***************************************************************************)
(* The tables of the registry                                               *)
(***************************************************************************)
\* the handler is in the name map of its type
InNameMap(h) == modehandlersbyname[GetModeType(h)][Handler[h].name] = h

\* the handler is in the (type, letter) slot of its type and letter
InLetterSlot(h) ==
  IsModeChar(GetModeChar(h)) /\ modehandlers[GetModeType(h)][GetModeChar(h)] = h

\* the (type, id) slots that hold the handler
IdSlotsOf(h) == {<<t, i>> \in ModeTypes \X ModeIds : modehandlersbyid[t][i] = h}

\* the handlers in a vector
InVector(seq) == {seq[i] : i \in DOMAIN seq}

\* no handler is twice in the vector
EachOnce(seq) == \A i \in DOMAIN seq, j \in DOMAIN seq : seq[i] = seq[j] => i = j

\* a slot holds only a handler of its type and letter, or name
SlotsHoldTheirOwn ==
  /\ \A t \in ModeTypes, l \in Letters :
       modehandlers[t][l] # NULL =>
         GetModeType(modehandlers[t][l]) = t /\ GetModeChar(modehandlers[t][l]) = l
  /\ \A t \in ModeTypes, n \in Names :
       modehandlersbyname[t][n] # NULL =>
         GetModeType(modehandlersbyname[t][n]) = t /\ Handler[modehandlersbyname[t][n]].name = n

LetterAndNameAgree == \A h \in Handlers : InLetterSlot(h) <=> InNameMap(h)

IdSlotsAgree ==
  \A h \in Handlers :
    /\ modeid[h] # MODEID_MAX => IdSlotsOf(h) = {<<GetModeType(h), modeid[h]>>}
    /\ modeid[h] = MODEID_MAX => IdSlotsOf(h) = {}
    /\ InNameMap(h) => (modeid[h] # MODEID_MAX <=> TakesId(h))

VectorsAgree ==
  /\ InVector(mhlist.prefix) = {h \in Handlers : InNameMap(h) /\ IsPrefixMode(h)}
  /\ InVector(mhlist.list) = {h \in Handlers : InNameMap(h) /\ IsListModeBase(h)}
  /\ EachOnce(mhlist.prefix) /\ EachOnce(mhlist.list)

AddModeFailures ==
  {"letter invalid", "prefix invalid", "prefix used", "letter used", "out of ids", "name used"}

\* this step is an AddMode that threw or a DelMode that returned false
IsFailedCall ==
  \E mh \in Handlers :
    \/ IsAddModeStep(mh) /\ lastop'.result \in AddModeFailures
    \/ IsDelModeStep(mh) /\ lastop'.result = "false"

\* the letter table, the name map, the id table, the two vectors and every
\* handler's id are as before the call, and so are the modes that are set
FailedCallChangesNothing ==
  IsFailedCall => UNCHANGED <<regvars, worldvars, LastChangeList>>

\* the handler AddMode has just refused holds no id unless it is registered, and
\* then it holds the id it had
RefusedHoldsNoId ==
  (lastop.op = "AddMode" /\ lastop.result \in AddModeFailures) =>
    /\ lastop.result # "ok"
    /\ ~IsRegistered(lastop.mh) => /\ modeid[lastop.mh] = MODEID_MAX
                                   /\ IdSlotsOf(lastop.mh) = {}
                                   /\ ~InLetterSlot(lastop.mh)
                                   /\ lastop.mh \notin InVector(mhlist.prefix) \cup InVector(mhlist.list)

(***************************************************************************)
(* C31: an AddMode that fails (invalid letter, invalid or used prefix       *)
(* character, occupied letter, used name, no free id) and a DelMode that     *)
(* returns false leave the registry as it was: the letter table, the name   *)
(* map, the id table and the prefix and list vectors are unchanged and the  *)
(* refused handler has been given no id.                                    *)
(***************************************************************************)
FailedCallsLeaveRegistry == [][FailedCallChangesNothing]_vars /\ []RefusedHoldsNoId

\* key holds an id; the second handler named key was refused for its name after
\* an id had been found for it, and holds none
SecondKeyRefused ==
  /\ lastop = [op |-> "AddMode", mh |-> "h_k2", result |-> "name used"]
  /\ modeid["h_k"] # MODEID_MAX
  /\ modeid["h_k2"] = MODEID_MAX
  /\ AllocateModeIdIn(Registry, MODETYPE_CHANNEL) # MODEID_MAX

(***************************************************************************)
(* Members who take a prefix mode from themselves                           *)
(***************************************************************************)
\* founder, which its holder cannot take from themself below its rank, and voice,
\* which takes rank 20000 to unset and has self-removal on
SelfHandlers == <<"h_n", "h_k", "h_q", "h_v", "h_b", "h_H">>
SelfRegistry == AddAll(EmptyRegistry, SelfHandlers)
SelfPrefixes == {"h_q", "h_v"}

\* x and y are on #a, each holding any of founder and voice
InitSelf ==
  /\ modehandlers = SelfRegistry.modehandlers
  /\ modehandlersbyname = SelfRegistry.modehandlersbyname
  /\ modehandlersbyid = SelfRegistry.modehandlersbyid
  /\ mhlist = SelfRegistry.mhlist
  /\ modeid = SelfRegistry.modeid
  /\ lastop = NoOp
  /\ InitProc /\ InitClean /\ InitOther
  /\ users = {"x", "y"}
  /\ chans = {"#a"}
  /\ usermodes = [u \in users |-> {}]
  /\ chanmodes = [c \in chans |-> {}]
  /\ chanparams = [c \in chans |-> [h \in Handlers |-> <<>>]]
  /\ chanlists = [c \in chans |-> [h \in Handlers |-> <<>>]]
  /\ \E held \in [{"x", "y"} -> SUBSET {"q", "v"}] :
       memberships = [c \in chans |-> [u \in {"x", "y"} |-> held[u]]]
  /\ MaxModes \in {1, 2}
  /\ modewatchermap = <<>>
  /\ LastChangeList = <<>>

\* MODE #a +X nick or -X nick by a member, X founder or voice, no hook answering
SelfInputs ==
  {Input(u, "#a", NULL, <<Change(h, adding, User[n].nick)>>, {MODE_CHECKACCESS}, NoHook) :
     u \in {"x", "y"}, h \in SelfPrefixes, adding \in BOOLEAN, n \in {"x", "y"}}

\* a list of one Change is gone over in the first pass
NextSelf ==
  \/ \E c \in SelfInputs : ProcessCall(c)
  \/ ProcessReturn

SpecSelf == InitSelf /\ [][NextSelf]_vars

\* the Change takes a self-removable prefix mode from the one who sends it
IsSelfRemoval(c) ==
  /\ ~c.list[1].adding
  /\ User[c.user].nick = c.list[1].param
  /\ Handler[c.list[1].mh].selfremove

\* the sender's rank is below the rank the Change takes
BelowRank(c) ==
  GetPrefixValue(World, c.chan, c.user) < GetLevelRequired(c.list[1].mh, c.list[1].adding)

\* the member named holds the prefix mode
HoldsPrefix(W, nick, mh) == GetModeChar(mh) \in W.memberships["#a"][FindNick(nick)]

\* a MODE of one prefix Change is processed in this step
SelfRemovalDecides ==
  \A c \in SelfInputs :
    (call = NoCall /\ call' = c) =>
      LET e == passlog'[1]
          item == c.list[1]
      IN  /\ Len(passlog') = 1 /\ e.change = item /\ e.raw = MOD_RES_PASSTHRU
          /\ IsSelfRemoval(c) =>
               /\ e.access = MOD_RES_ALLOW
               /\ Permitted(e)
               /\ e.numerics = <<>>
               /\ HoldsPrefix(World, item.param, item.mh) =>
                    /\ e.ma = MODEACTION_ALLOW
                    /\ ~HoldsPrefix(World', item.param, item.mh)
          /\ ~IsSelfRemoval(c) =>
               /\ e.access = MOD_RES_PASSTHRU
               /\ BelowRank(c) => RankRefused(e) /\ UNCHANGED worldvars
               /\ ~BelowRank(c) => Permitted(e)

(***************************************************************************)
(* C32: a channel member can take a prefix mode from themself (-X with      *)
(* their own nick) when the prefix mode has self-removal on, even with a    *)
(* rank below the rank it takes to unset the mode; with self-removal off,   *)
(* or when the parameter names another user, the rank check decides.        *)
(***************************************************************************)
SelfRemovalBypassesRank == [][SelfRemovalDecides]_vars

\* x held voice only, below the rank that unsets voice, sent -v x and lost it
VoiceDroppedBySelf ==
  /\ call # NoCall /\ call.user = "x"
  /\ call.list = <<Change("h_v", FALSE, <<"x">>)>>
  /\ Len(passlog) = 1
  /\ passlog[1].access = MOD_RES_ALLOW /\ passlog[1].ma = MODEACTION_ALLOW
  /\ memberships["#a"]["x"] = {}
  /\ GetLevelRequired("h_v", FALSE) > GetPrefixRank("h_v")

(***************************************************************************)
(* Tick callbacks that reschedule or unschedule their own timer             *)
(***************************************************************************)
\* the timers and intervals of this part
TickTimerIds == {"A", "B"}
TickIntervals == {1, 2}

\* what a Tick callback does to its own timer before it returns
NoCallback == [op |-> "none", secs |-> 0]
Callbacks ==
  {NoCallback, [op |-> "DelTimer", secs |-> 0]}
    \cup {[op |-> "SetInterval", secs |-> n] : n \in TickIntervals}

\* the entries of t in the map
EntriesOf(map, t) == {k \in 1..Len(map) : map[k].t = t}

\* the map and the iterator of the loop, which stays on its entry, once
\* AddTimer has put (key, t) into the map
Inserted(s, key, t) ==
  LET p == Cardinality({k \in 1..Len(s.map) : s.map[k].key <= key}) + 1
  IN  [map |-> AddTimer(s.map, key, t),
       i |-> IF p <= s.i THEN s.i + 1 ELSE s.i,
       invalid |-> s.invalid]

\* the map and the iterator once DelTimer(t) has run with t's trigger at key; the
\* iterator is invalid when its entry is the one erased
Deleted(s, key, t) ==
  LET hits == {k \in 1..Len(s.map) : s.map[k].key = key /\ s.map[k].t = t}
  IN  IF hits = {} THEN s
      ELSE LET h == CHOOSE k \in hits : \A j \in hits : k <= j
           IN  [map |-> DelTimer(s.map, key, t),
                i |-> IF h < s.i THEN s.i - 1 ELSE s.i,
                invalid |-> s.invalid \/ h = s.i]

\* Tick runs the callback: nothing, DelTimer(this) or SetInterval(secs)
AfterCallback(s, obj, t, cb) ==
  CASE cb.op = "none" -> [s |-> s, obj |-> obj]
    [] cb.op = "DelTimer" -> [s |-> Deleted(s, obj.trigger, t), obj |-> obj]
    [] cb.op = "SetInterval" ->
         [s |-> Inserted(Deleted(s, obj.trigger, t), Time + cb.secs, t),
          obj |-> [obj EXCEPT !.secs = cb.secs, !.trigger = Time + cb.secs]]

\* Tick has returned ret: a repeating timer is given its next trigger and added
AfterTickNoCheck(r, t, ret) ==
  IF ret /\ r.obj.repeat
    THEN [s |-> Inserted(r.s, tick.TIME + r.obj.secs, t),
          obj |-> [r.obj EXCEPT !.trigger = tick.TIME + r.obj.secs]]
    ELSE r

AfterTick(r, t, ret) == AfterTickNoCheck(r, t, ret)

\* one turn of the loop of TickTimers with a callback that may act on its timer:
\* erase(i++), Tick, and the timer is added again when it repeats
TurnResult(t, cb, ret) ==
  AfterTick(AfterCallback([map |-> Erased(Timers, tick.i), i |-> tick.i, invalid |-> FALSE],
                          timerobj[t], t, cb),
            t, ret)

TickCallbackTurn(cb, ret) ==
  /\ tick.on
  /\ ~TickDone
  /\ Len(fired) < MaxFired
  /\ Len(Timers) <= MaxEntries
  /\ LET t == Timers[tick.i].t
         r == TurnResult(t, cb, ret)
     IN  /\ fired' = Append(fired, Fired(t, ret))
         /\ timerobj' = [timerobj EXCEPT ![t] = r.obj]
         /\ Timers' = r.s.map
         \* an iterator whose entry was erased may stand anywhere afterwards
         /\ IF r.s.invalid
              THEN \E i \in 1..(Len(r.s.map) + 1) : tick' = [tick EXCEPT !.i = i]
              ELSE tick' = [tick EXCEPT !.i = r.s.i]
         /\ addorder' = IF IsScheduled(r.s.map, t) THEN Append(Unlisted(addorder, t), t)
                        ELSE Unlisted(addorder, t)
  /\ UNCHANGED <<Time, atstart, nontimervars>>

\* a timer is destroyed while it is in the map once: a second entry would be left
\* dangling
TimerDtorOnce(t) == Cardinality(EntriesOf(Timers, t)) = 1 /\ TimerDtor(t)

NextTick ==
  \/ \E t \in TickTimerIds, secs \in TickIntervals, repeat \in BOOLEAN : NewTimer(t, secs, repeat)
  \/ \E t \in TickTimerIds : TimerDtorOnce(t)
  \/ \E t \in TickTimerIds, secs \in TickIntervals : SetInterval(t, secs)
  \/ AdvanceTime
  \/ TickTimersCall
  \/ \E cb \in Callbacks, ret \in BOOLEAN : TickCallbackTurn(cb, ret)
  \/ TickTimersReturn

SpecTick == InitServer /\ [][NextTick]_vars

(***************************************************************************)
(* C33 as stated: after any sequence of AddTimer (of a timer that is not    *)
(* scheduled), DelTimer, SetInterval and TickTimers, Tick callbacks that    *)
(* call SetInterval or DelTimer on their own timer included, every Timer is *)
(* in the timer map at most once.                                           *)
(***************************************************************************)
InMapAtMostOnce == \A t \in TimerIds : Cardinality(EntriesOf(Timers, t)) <= 1

(***************************************************************************)
(* C34 as stated: with every repeating timer's interval at least a second,  *)
(* a TickTimers call invokes each timer at most once, and a timer added     *)
(* again during the call has a trigger after the call's TIME.               *)
(***************************************************************************)
TickedOncePerCall ==
  /\ \A a, b \in 1..Len(fired) : fired[a].t = fired[b].t => a = b
  /\ tick.on => \A k \in 1..Len(Timers) :
                  (\E a \in 1..Len(fired) : fired[a].t = Timers[k].t) =>
                    Timers[k].key > tick.TIME

(***************************************************************************)
(* SAPART, SAKICK and SAQUIT between two linked servers.  The operator "o"  *)
(* is on s1; of the users a command can name, "u" and the unregistered "n"  *)
(* are on s1, "t" is on s2 and "sv" is on a services server.                *)
(***************************************************************************)
SaServers == {"s1", "s2"}
SaNicks == {"u", "t", "sv", "n", "zz"}
SaChans == {"#a", "#b"}

ServerOf(nick) ==
  CASE nick \in {"o", "u", "n"} -> "s1"
    [] nick = "t" -> "s2"
    [] OTHER -> "services"

\* dest->registered == REG_ALL
SaRegistered(nick) == nick # "n"

\* the server across the link
OtherServer(s) == IF s = "s1" THEN "s2" ELSE "s1"

\* a channel parameter is a sequence of names and commas
HasComma(param) == \E i \in 1..Len(param) : param[i] = ","

RECURSIVE CommaTokens(_)
CommaTokens(param) ==
  IF param = <<>> THEN <<>>
  ELSE IF Head(param) = "," THEN CommaTokens(Tail(param))
  ELSE <<Head(param)>> \o CommaTokens(Tail(param))

\* ServerInstance->Channels.Find: a channel exists while it has a member
SaFindChan(view, param) ==
  /\ Len(param) = 1
  /\ param[1] \in DOMAIN view.chans
  /\ view.chans[param[1]] # {}

\* Channel::PartUser and Channel::KickUser: the member leaves
SaPartUser(view, chan, dest) ==
  [view EXCEPT !.chans = [@ EXCEPT ![chan] = @ \ {dest}]]

\* UserManager::QuitUser: the user leaves the server and every channel
SaQuitUser(view, dest) ==
  [view EXCEPT !.users = @ \ {dest},
               !.chans = [c \in DOMAIN @ |-> @[c] \ {dest}]]

\* what a Handle call gives back
SaOutcome(result, view, reply, did) ==
  [result |-> result, view |-> view, reply |-> reply, did |-> did]

SaSnotice(view) == [view EXCEPT !.sno = @ + 1]

\* CommandSapart::Handle once the parameter names one channel
CommandSapartHandle(view, s, parameters) ==
  LET dest == parameters[1]
      chan == parameters[2][1]
  IN IF dest \in view.users /\ SaRegistered(dest) /\ SaFindChan(view, parameters[2])
     THEN IF IsService(ServerOf(dest))
          THEN SaOutcome("FAILURE", view, "ERR_NOPRIVILEGES", <<>>)
          ELSE IF dest \notin view.chans[chan]
          THEN SaOutcome("FAILURE", view, "is not on", <<>>)
          ELSE IF ServerOf(dest) = s
          THEN SaOutcome("SUCCESS", SaSnotice(SaPartUser(view, chan, dest)), "",
                         <<[kind |-> "PART", dest |-> dest, chan |-> chan]>>)
          ELSE SaOutcome("SUCCESS", view, "", <<>>)
     ELSE SaOutcome("FAILURE", view, "Invalid nickname or channel", <<>>)

\* CommandSakick::Handle: the channel comes first
CommandSakickHandle(view, s, parameters) ==
  LET dest == parameters[2]
      chan == parameters[1][1]
  IN IF dest \in view.users /\ SaRegistered(dest) /\ SaFindChan(view, parameters[1])
     THEN IF IsService(ServerOf(dest))
          THEN SaOutcome("FAILURE", view, "ERR_NOPRIVILEGES", <<>>)
          ELSE IF dest \notin view.chans[chan]
          THEN SaOutcome("FAILURE", view, "is not on", <<>>)
          ELSE IF ServerOf(dest) = s
          THEN SaOutcome("SUCCESS", SaSnotice(SaPartUser(view, chan, dest)), "",
                         <<[kind |-> "KICK", dest |-> dest, chan |-> chan]>>)
          ELSE SaOutcome("SUCCESS", view, "", <<>>)
     ELSE SaOutcome("FAILURE", view, "Invalid nickname or channel", <<>>)

CommandSaquitHandleEverywhere(view, s, parameters) ==
  LET dest == parameters[1]
  IN IF dest \in view.users /\ SaRegistered(dest)
     THEN IF IsService(ServerOf(dest))
          THEN SaOutcome("FAILURE", view, "ERR_NOPRIVILEGES", <<>>)
          ELSE SaOutcome("SUCCESS", SaQuitUser(SaSnotice(view), dest), "",
                         <<[kind |-> "QUIT", dest |-> dest, chan |-> "*"]>>)
     ELSE SaOutcome("FAILURE", view, "Invalid nickname", <<>>)

\* CommandSaquit::Handle
CommandSaquitHandle(view, s, parameters) ==
  LET dest == parameters[1]
  IN IF dest \in view.users /\ SaRegistered(dest)
     THEN IF IsService(ServerOf(dest))
          THEN SaOutcome("FAILURE", view, "ERR_NOPRIVILEGES", <<>>)
          ELSE IF ServerOf(dest) # s
          THEN SaOutcome("SUCCESS", view, "", <<>>)
          ELSE SaOutcome("SUCCESS", SaQuitUser(SaSnotice(view), dest), "",
                         <<[kind |-> "QUIT", dest |-> dest, chan |-> "*"]>>)
     ELSE SaOutcome("FAILURE", view, "Invalid nickname", <<>>)

SaHandle(cmd, view, s, parameters) ==
  CASE cmd = "SAPART" -> CommandSapartHandle(view, s, parameters)
    [] cmd = "SAKICK" -> CommandSakickHandle(view, s, parameters)
    [] OTHER -> CommandSaquitHandle(view, s, parameters)

\* GetRouting: the parameter that names the user whose server gets the command
RoutedNick(cmd, parameters) == IF cmd = "SAKICK" THEN parameters[2] ELSE parameters[1]

\* ROUTE_OPT_UCAST after a SUCCESS: the command goes to the server of the
\* user it names, when that is another server
SaForwarded(cmd, view, s, parameters, result) ==
  LET nick == RoutedNick(cmd, parameters)
  IN IF result = "SUCCESS" /\ nick \in view.users /\ ServerOf(nick) \in SaServers \ {s}
     THEN {ServerOf(nick)}
     ELSE {}

\* one Handle call with what follows it: the command is forwarded after a
\* SUCCESS, and what was done to a local user is told to the other server
SaCall(cmd, view, s, parameters) ==
  LET out == SaHandle(cmd, view, s, parameters)
      to == SaForwarded(cmd, view, s, parameters, out.result)
  IN [view |-> out.view,
      run |-> [at |-> s, cmd |-> cmd, parameters |-> parameters,
               before |-> view, after |-> out.view, result |-> out.result,
               reply |-> out.reply, forwarded |-> to],
      wire |-> [i \in 1..Len(out.did) |->
                  [to |-> OtherServer(s), cmd |-> out.did[i].kind,
                   parameters |-> <<out.did[i].dest, out.did[i].chan>>]]
              \o (IF to = {} THEN <<>>
                  ELSE <<[to |-> OtherServer(s), cmd |-> cmd, parameters |-> parameters]>>),
      did |-> [i \in 1..Len(out.did) |-> out.did[i] @@ [at |-> s]]]

\* CommandParser::LoopCall: a parameter with a comma is split and the
\* command is gone through once for every name in it
RECURSIVE LoopCall(_, _, _, _, _)
LoopCall(cmd, view, s, parameters, tokens) ==
  IF tokens = <<>> THEN [view |-> view, runs |-> <<>>, wire |-> <<>>, did |-> <<>>]
  ELSE LET one == SaCall(cmd, view, s, <<parameters[1], <<Head(tokens)>>>>)
           rest == LoopCall(cmd, one.view, s, parameters, Tail(tokens))
       IN [view |-> rest.view, runs |-> <<one.run>> \o rest.runs,
           wire |-> one.wire \o rest.wire, did |-> one.did \o rest.did]

\* a command as the server goes through it: SAPART loops over a list first,
\* and the looping call itself returns FAILURE and is forwarded nowhere
SaDispatch(cmd, view, s, parameters) ==
  IF cmd = "SAPART" /\ HasComma(parameters[2])
  THEN LoopCall(cmd, view, s, parameters, CommaTokens(parameters[2]))
  ELSE LET one == SaCall(cmd, view, s, parameters)
       IN [view |-> one.view, runs |-> <<one.run>>, wire |-> one.wire, did |-> one.did]

\* PART, KICK and QUIT of a remote user as the other server tells them
SaRemoteEvent(view, msg) ==
  IF msg.cmd = "QUIT" THEN SaQuitUser(view, msg.parameters[1])
  ELSE SaPartUser(view, msg.parameters[2], msg.parameters[1])

SaViews ==
  {[users |-> {"o", "u", "t", "sv", "n"}, chans |-> ("#a" :> a @@ "#b" :> b), sno |-> 0] :
     a \in {{"t", "u"}, {"t", "u", "sv", "n"}, {"o", "u"}}, b \in {{"t"}, {"u", "t"}, {}}}

InitSaNet ==
  /\ InitModeParser
  /\ InitTimers /\ InitXLines /\ InitParser /\ InitLog /\ InitRehash
  /\ InitAway /\ InitShun /\ InitBan /\ InitSethost /\ InitMerge /\ InitSasl
  /\ \E v \in SaViews : saview = [s \in SaServers |-> v]
  /\ sawire = <<>>
  /\ saissued = NoSa
  /\ saruns = <<>>
  /\ sadone = <<>>

SaChanParams == {<<"#a">>, <<"#b">>, <<"#x">>, <<"#a", ",", "#b">>}

SaCommands ==
  {[cmd |-> "SAPART", parameters |-> <<n, c>>] : n \in SaNicks, c \in SaChanParams}
  \cup {[cmd |-> "SAKICK", parameters |-> <<c, n>>] : n \in SaNicks, c \in SaChanParams}
  \cup {[cmd |-> "SAQUIT", parameters |-> <<n, "reason">>] : n \in SaNicks}

\* the operator on s1 gives a command while the link is quiet
SaIssue(c) ==
  /\ sawire = <<>>
  /\ LET r == SaDispatch(c.cmd, saview["s1"], "s1", c.parameters)
     IN /\ saview' = [saview EXCEPT !["s1"] = r.view]
        /\ sawire' = r.wire
        /\ saruns' = r.runs
        /\ sadone' = r.did
  /\ saissued' = [cmd |-> c.cmd, parameters |-> c.parameters, before |-> saview["s1"]]
  /\ UNCHANGED <<modevars, noncmdvars, nonsavars>>

\* the first message on the link arrives at its server
SaDeliver ==
  /\ sawire # <<>>
  /\ LET msg == Head(sawire)
     IN IF msg.cmd \in {"PART", "KICK", "QUIT"}
        THEN /\ saview' = [saview EXCEPT ![msg.to] = SaRemoteEvent(@, msg)]
             /\ sawire' = Tail(sawire)
             /\ saruns' = <<>>
             /\ UNCHANGED sadone
        ELSE LET r == SaDispatch(msg.cmd, saview[msg.to], msg.to, msg.parameters)
             IN /\ saview' = [saview EXCEPT ![msg.to] = r.view]
                /\ sawire' = Tail(sawire) \o r.wire
                /\ saruns' = r.runs
                /\ sadone' = sadone \o r.did
  /\ UNCHANGED <<saissued, modevars, noncmdvars, nonsavars>>

NextSa ==
  \/ \E c \in SaCommands : SaIssue(c)
  \/ SaDeliver

SpecSa == InitSaNet /\ [][NextSa]_vars

\* the command names a user and a channel that pass every check of Handle
SaValid(view, cmd, parameters) ==
  LET dest == RoutedNick(cmd, parameters)
      chanparam == IF cmd = "SAPART" THEN parameters[2] ELSE parameters[1]
  IN /\ dest \in view.users
     /\ SaRegistered(dest)
     /\ ~IsService(ServerOf(dest))
     /\ cmd # "SAQUIT" => /\ SaFindChan(view, chanparam)
                          /\ dest \in view.chans[chanparam[1]]

\* a Handle call on a server where the user it names is remote
RemoteRun(r) ==
  /\ SaValid(r.before, r.cmd, r.parameters)
  /\ ServerOf(RoutedNick(r.cmd, r.parameters)) # r.at

RemoteRunsOnlyRoute ==
  \A i \in 1..Len(saruns) :
    RemoteRun(saruns[i]) =>
      /\ saruns[i].result = "SUCCESS"
      /\ saruns[i].after = saruns[i].before
      /\ saruns[i].reply = ""
      /\ saruns[i].forwarded = {ServerOf(RoutedNick(saruns[i].cmd, saruns[i].parameters))}

DoneAtHome == \A i \in 1..Len(sadone) : sadone[i].at = ServerOf(sadone[i].dest)

\* the single commands the issued command stands for
IssuedSingles ==
  IF saissued = NoSa THEN {}
  ELSE IF saissued.cmd = "SAPART"
  THEN {[cmd |-> "SAPART", parameters |-> <<saissued.parameters[1], <<c>>>>, chan |-> c] :
          c \in {saissued.parameters[2][i] : i \in 1..Len(saissued.parameters[2])} \ {","}}
  ELSE IF saissued.cmd = "SAKICK"
  THEN {[cmd |-> "SAKICK", parameters |-> saissued.parameters,
         chan |-> saissued.parameters[1][1]]}
  ELSE {[cmd |-> "SAQUIT", parameters |-> saissued.parameters, chan |-> "*"]}

TimesDone(c) ==
  Cardinality({i \in 1..Len(sadone) :
                 /\ sadone[i].dest = RoutedNick(c.cmd, c.parameters)
                 /\ sadone[i].chan = c.chan})

DoneOnce ==
  \A c \in IssuedSingles :
    SaValid(saissued.before, c.cmd, c.parameters) =>
      /\ TimesDone(c) <= 1
      /\ sawire = <<>> => TimesDone(c) = 1

(***************************************************************************)
(* C35: SAPART, SAKICK and SAQUIT gone through on a server where the user   *)
(* they name is remote change nothing on that server and return SUCCESS, so *)
(* that the command is sent to the user's own server alone; the part, kick  *)
(* or quit is done only by the server the user is local to, and once the    *)
(* link is quiet it was done exactly once for the command that was given.   *)
(***************************************************************************)
RemoteTargetIsRouted == RemoteRunsOnlyRoute /\ DoneAtHome /\ DoneOnce

\* SAPART t #a,#b was given on s1, went over the link for both channels,
\* and s2 parted t from each of them once
RoutedPartDone ==
  /\ saissued # NoSa
  /\ saissued.cmd = "SAPART"
  /\ saissued.parameters = <<"t", <<"#a", ",", "#b">>>>
  /\ sawire = <<>>
  /\ Len(sadone) = 2
  /\ \A i \in 1..2 : sadone[i].at = "s2"
  /\ \A s \in SaServers : "t" \notin saview[s].chans["#a"] \cup saview[s].chans["#b"]

PlacesIn(streams, type, s) ==
  IF type \in DOMAIN streams
  THEN {i \in 1..Len(streams[type]) : streams[type][i] = s}
  ELSE {}

\* stream s is registered, owned and alive after the step as it was before
KeepsAll(s) ==
  /\ \A t \in LogTypes :
       Cardinality(PlacesIn(LogStreams', t, s)) = Cardinality(PlacesIn(LogStreams, t, s))
  /\ s \in DOMAIN GlobalLogStreams <=> s \in DOMAIN GlobalLogStreams'
  /\ s \in DOMAIN AllLogStreams =>
       s \in DOMAIN AllLogStreams' /\ AllLogStreams'[s] = AllLogStreams[s]
  /\ s \in livestreams => s \in livestreams'

\* stream l is in no list and is not a global stream, and it alone went
ReleasedAlone(l) ==
  /\ \A t \in LogTypes : PlacesIn(LogStreams', t, l) = {}
  /\ l \notin DOMAIN GlobalLogStreams'
  /\ l \notin DOMAIN AllLogStreams'
  /\ \A s \in StreamIds \ {l} : KeepsAll(s)

(***************************************************************************)
(* C37 as stated: DelLogStream(l) takes l out of every per-type list and    *)
(* out of the global streams and releases only l; every other stream keeps  *)
(* its type registrations, its global registration and its entry in the     *)
(* auto-close table, and is not destroyed.                                  *)
(***************************************************************************)
DelLogStreamReleasesOnlyL ==
  [][\A l \in StreamIds : DelLogStreamCall(l) => ReleasedAlone(l)]_vars

(***************************************************************************)
(* A type list with exclusions and its net list                             *)
(***************************************************************************)
\* the types a list adds, in order
Added(types) == LET A(tok) == tok # "" /\ ~IsExclude(tok) IN SelectSeq(types, A)

\* the added types that no exclusion takes back: each -T takes back one T,
\* and -* takes back everything
RECURSIVE NetOf(_, _)
NetOf(added, excludes) ==
  IF excludes = <<>> THEN added
  ELSE IF Head(excludes) = "*" THEN <<>>
  ELSE NetOf(EraseFirst(added, Head(excludes)), Tail(excludes))

RECURSIVE EachAdded(_, _, _, _)
EachAdded(L, net, l, autoclose) ==
  IF net = <<>> THEN L
  ELSE EachAdded(AddLogType(L, Head(net), l, autoclose), Tail(net), l, autoclose)

\* the stream registered with the net list, the exclusions being its
\* exclusion set when it is a global stream
NetRegistered(L, types, l, autoclose) ==
  LET R == EachAdded(L, NetOf(Added(types), Excludes(types)), l, autoclose)
  IN IF l \in DOMAIN R.GlobalLogStreams
     THEN [R EXCEPT !.GlobalLogStreams[l] = Excludes(types)]
     ELSE R

\* the streams of a type's list; a type without a list has none
StreamsOf(streams, type) == IF type \in DOMAIN streams THEN streams[type] ELSE <<>>

SameAsNet(types, l, autoclose) ==
  LET R == NetRegistered(Manager, types, l, autoclose)
  IN /\ \A t \in LogTypes : StreamsOf(LogStreams', t) = StreamsOf(R.LogStreams, t)
     /\ GlobalLogStreams' = R.GlobalLogStreams
     /\ AllLogStreams' = R.AllLogStreams

\* a call of AddLogTypes with a stream that is registered nowhere
FreshAddLogTypes(types, l, autoclose) ==
  /\ Unregistered(Manager, l)
  /\ AddLogTypesCall(types, l, autoclose)

(***************************************************************************)
(* C38 as stated: registering a stream with a type list that has exclusions *)
(* leaves the per-type lists, the auto-close counts and the global streams  *)
(* as registering it with the net list does, the -T tokens being the        *)
(* exclusion set of a global stream.                                        *)
(***************************************************************************)
ExclusionsGiveNetList ==
  [][\A types \in TypeLists, l \in StreamIds, autoclose \in BOOLEAN :
       FreshAddLogTypes(types, l, autoclose) => SameAsNet(types, l, autoclose)]_vars

\* the same for the type lists that do not exclude everything
SameAsNetButAll ==
  [][\A types \in TypeLists, l \in StreamIds, autoclose \in BOOLEAN :
       (FreshAddLogTypes(types, l, autoclose) /\ ~isin(types, "-*"))
         => SameAsNet(types, l, autoclose)]_vars

(***************************************************************************)
(* The sasl module: AUTHENTICATE from the client, SASL from the agent       *)
(***************************************************************************)
RPL_SASLSUCCESS == 903
ERR_SASLFAIL == 904
ERR_SASLTOOLONG == 905
ERR_SASLABORTED == 906
RPL_SASLMECHS == 908
MAX_AUTHENTICATE_SIZE == 400

SASL_INIT == "SASL_INIT"
SASL_COMM == "SASL_COMM"
SASL_DONE == "SASL_DONE"

MaxSessions == 2

SaslUsers == {"u"}
SaslAgents == {"a1", "a2"}

\* a new SaslAuthenticator; the constructor leaves result as it finds it
NewAuthenticator(id) ==
  [id |-> id, agent |-> "", state |-> SASL_INIT, result |-> "unset",
   state_announced |-> FALSE]

\* SaslAuthenticator::GetSaslResult
GetSaslResult(result_) ==
  IF result_ = "F" THEN "SASL_FAIL"
  ELSE IF result_ = "A" THEN "SASL_ABORT"
  ELSE "SASL_OK"

\* what a call leaves: the authenticator, the states it went into, and what
\* was written to the user, sent to the client and sent to the agent
SaslStep(sasl, entered, numerics, toclient, toagent) ==
  [sasl |-> sasl, entered |-> entered, numerics |-> numerics,
   toclient |-> toclient, sent |-> toagent]

\* ProcessInboundMessage, the case SASL_COMM, which SASL_INIT falls into
InboundComm(sasl, msg, entered) ==
  IF msg[1] # sasl.agent THEN SaslStep(sasl, entered, <<>>, <<>>, <<>>)
  ELSE IF Len(msg) < 4 THEN SaslStep(sasl, entered, <<>>, <<>>, <<>>)
  ELSE IF msg[3] = "C"
  THEN SaslStep(sasl, entered, <<>>, <<<<"AUTHENTICATE", msg[4]>>>>, <<>>)
  ELSE IF msg[3] = "D"
  THEN SaslStep([sasl EXCEPT !.state = SASL_DONE, !.result = GetSaslResult(msg[4])],
                Append(entered, SASL_DONE), <<>>, <<>>, <<>>)
  ELSE IF msg[3] = "M"
  THEN SaslStep(sasl, entered, <<RPL_SASLMECHS>>, <<>>, <<>>)
  ELSE SaslStep(sasl, entered, <<>>, <<>>, <<>>)

\* ProcessInboundMessage that takes a message of any agent
ProcessInboundMessageAnyAgent(sasl, msg) ==
  IF sasl.state = SASL_INIT
  THEN InboundComm([sasl EXCEPT !.agent = msg[1], !.state = SASL_COMM], msg, <<SASL_COMM>>)
  ELSE IF sasl.state = SASL_COMM
  THEN InboundComm([sasl EXCEPT !.agent = msg[1]], msg, <<>>)
  ELSE SaslStep(sasl, <<>>, <<>>, <<>>, <<>>)

\* SaslAuthenticator::ProcessInboundMessage
ProcessInboundMessage(sasl, msg) ==
  IF sasl.state = SASL_INIT
  THEN InboundComm([sasl EXCEPT !.agent = msg[1], !.state = SASL_COMM], msg, <<SASL_COMM>>)
  ELSE IF sasl.state = SASL_COMM
  THEN InboundComm(sasl, msg, <<>>)
  ELSE SaslStep(sasl, <<>>, <<>>, <<>>, <<>>)

\* SaslAuthenticator::SendClientMessage; the state tells what it returned
SendClientMessage(sasl, parameters) ==
  IF sasl.state # SASL_COMM THEN SaslStep(sasl, <<>>, <<>>, <<>>, <<>>)
  ELSE IF parameters[1][1] = "*"
  THEN SaslStep([sasl EXCEPT !.state = SASL_DONE, !.result = "SASL_ABORT"],
                <<SASL_DONE>>, <<>>, <<>>, <<<<sasl.agent, "C", parameters[1]>>>>)
  ELSE SaslStep(sasl, <<>>, <<>>, <<>>, <<<<sasl.agent, "C", parameters[1]>>>>)

\* SaslAuthenticator::AnnounceState: the numerics it can write; a result
\* that was never set is whatever the memory held
AnnounceState(sasl) ==
  IF sasl.state_announced THEN {<<>>}
  ELSE CASE sasl.result = "SASL_OK" -> {<<RPL_SASLSUCCESS>>}
         [] sasl.result = "SASL_ABORT" -> {<<ERR_SASLABORTED>>}
         [] sasl.result = "SASL_FAIL" -> {<<ERR_SASLFAIL>>}
         [] OTHER -> {<<>>, <<RPL_SASLSUCCESS>>, <<ERR_SASLABORTED>>, <<ERR_SASLFAIL>>}

\* the states a call went into and the numerics AnnounceState wrote, added
\* to those of the authenticator
Noted(sessions, step, announced) ==
  [sessions EXCEPT ![step.sasl.id] =
     [trail |-> @.trail \o step.entered, numerics |-> @.numerics \o announced]]

\* what became of a command
SaslDone(cmd, user, parameters, result, id, step) ==
  [cmd |-> cmd, user |-> user, parameters |-> parameters, result |-> result,
   id |-> id, numerics |-> step.numerics, toclient |-> step.toclient, sent |-> step.sent]

NoStep == [numerics |-> <<>>, toclient |-> <<>>, sent |-> <<>>]

\* after a call the authenticator is announced and taken off the user when it
\* is done, and else stays as the call left it
Settled(user, step) ==
  IF step.sasl.state = SASL_DONE
  THEN \E announced \in AnnounceState(step.sasl) :
         /\ authExt' = MapErase(authExt, user)
         /\ saslsessions' = Noted(saslsessions, step, announced)
  ELSE /\ authExt' = MapPut(authExt, user, step.sasl)
       /\ saslsessions' = Noted(saslsessions, step, <<>>)

HasSpace(str) == \E i \in 1..Len(str) : str[i] = " "

\* CommandAuthenticate::HandleLocal
Authenticate(user, parameters) ==
  /\ IF user \notin capsasl \/ HasSpace(parameters[1]) \/ parameters[1][1] = ":"
     THEN /\ lastsasl' = SaslDone("AUTHENTICATE", user, parameters, "CMD_FAILURE", 0, NoStep)
          /\ UNCHANGED <<authExt, saslsessions>>
     ELSE IF Len(parameters[1]) > MAX_AUTHENTICATE_SIZE
     THEN /\ lastsasl' = SaslDone("AUTHENTICATE", user, parameters, "CMD_FAILURE", 0,
                                  [NoStep EXCEPT !.numerics = <<ERR_SASLTOOLONG>>])
          /\ UNCHANGED <<authExt, saslsessions>>
     ELSE IF user \notin DOMAIN authExt
     THEN /\ Len(saslsessions) < MaxSessions
          /\ authExt' = MapPut(authExt, user, NewAuthenticator(Len(saslsessions) + 1))
          /\ saslsessions' = Append(saslsessions, [trail |-> <<SASL_INIT>>, numerics |-> <<>>])
          /\ lastsasl' = SaslDone("AUTHENTICATE", user, parameters, "CMD_FAILURE",
                                  Len(saslsessions) + 1,
                                  [NoStep EXCEPT !.sent = <<<<"*", "S", parameters[1]>>>>])
     ELSE LET step == SendClientMessage(authExt[user], parameters)
          IN /\ Settled(user, step)
             /\ lastsasl' = SaslDone("AUTHENTICATE", user, parameters, "CMD_FAILURE",
                                     authExt[user].id, step)
  /\ UNCHANGED <<capsasl, sasl_target, requiressl, online, linked, lastcap>>
  /\ UNCHANGED <<modevars, noncmdvars, nonsaslvars>>

\* CommandSASL::Handle
Sasl(parameters) ==
  /\ IF parameters[2] \notin SaslUsers \/ parameters[2] \notin DOMAIN authExt
     THEN /\ lastsasl' = SaslDone("SASL", "NULL", parameters, "CMD_FAILURE", 0, NoStep)
          /\ UNCHANGED <<authExt, saslsessions>>
     ELSE LET target == parameters[2]
              step == ProcessInboundMessage(authExt[target], parameters)
          IN /\ Settled(target, step)
             /\ lastsasl' = SaslDone("SASL", target, parameters, "CMD_SUCCESS",
                                     authExt[target].id, step)
  /\ UNCHANGED <<capsasl, sasl_target, requiressl, online, linked, lastcap>>
  /\ UNCHANGED <<modevars, noncmdvars, nonsaslvars>>

TooLong == [i \in 1..(MAX_AUTHENTICATE_SIZE + 1) |-> "x"]
AuthParams == {<<"P">>, <<"*">>, <<"+">>, <<"a", " ", "b">>, <<":">>, TooLong}
SaslMessages ==
  {<<a, t>> : a \in SaslAgents, t \in {"u", "zz"}}
  \cup {<<a, "u", mode>> : a \in SaslAgents, mode \in {"C", "D"}}
  \cup {<<a, "u", mode, data>> : a \in SaslAgents, mode \in {"C", "D", "M", "X"},
                                  data \in {"S", "F", "A"}}

InitSaslModule ==
  /\ InitModeParser
  /\ InitTimers /\ InitXLines /\ InitParser /\ InitLog /\ InitRehash
  /\ InitAway /\ InitShun /\ InitBan /\ InitSethost /\ InitMerge /\ InitSa
  /\ authExt = <<>>
  /\ capsasl \in SUBSET SaslUsers
  /\ saslsessions = <<>>
  /\ lastsasl = NoSasl
  /\ sasl_target = <<>>
  /\ requiressl = FALSE
  /\ online = FALSE
  /\ linked = {}
  /\ lastcap = NoSasl

NextSasl ==
  \/ \E user \in SaslUsers, p \in AuthParams : Authenticate(user, <<p>>)
  \/ \E msg \in SaslMessages : Sasl(msg)

SpecSasl == InitSaslModule /\ [][NextSasl]_vars

\* the states of an authenticator in the order they were entered are a
\* beginning of INIT, COMM, DONE, and an attached one is in the last of them
TrailsForward ==
  /\ \A id \in 1..Len(saslsessions) :
       saslsessions[id].trail =
         SubSeq(<<SASL_INIT, SASL_COMM, SASL_DONE>>, 1, Len(saslsessions[id].trail))
  /\ \A u \in DOMAIN authExt :
       authExt[u].state = saslsessions[authExt[u].id].trail[Len(saslsessions[authExt[u].id].trail)]

IsDone(id) == saslsessions[id].trail[Len(saslsessions[id].trail)] = SASL_DONE

\* an authenticator that is done wrote exactly one of 903, 904 and 906 and is
\* attached to no user; one that is not done wrote none of them
DoneAnnouncedAndDetached ==
  \A id \in 1..Len(saslsessions) :
    IF IsDone(id)
    THEN /\ Len(saslsessions[id].numerics) = 1
         /\ saslsessions[id].numerics[1] \in {RPL_SASLSUCCESS, ERR_SASLFAIL, ERR_SASLABORTED}
         /\ \A u \in DOMAIN authExt : authExt[u].id # id
    ELSE saslsessions[id].numerics = <<>>

\* the first SASL message binds its sender as the agent
FirstBindsAgent ==
  \A msg \in SaslMessages :
    (Sasl(msg) /\ msg[2] \in DOMAIN authExt /\ authExt[msg[2]].state = SASL_INIT) =>
      /\ Len(saslsessions'[authExt[msg[2]].id].trail) >= 2
      /\ msg[2] \in DOMAIN authExt' => authExt'[msg[2]].agent = msg[1]

\* a later message of another agent or with fewer than 4 parameters changes
\* nothing and writes nothing
OthersIgnored ==
  \A msg \in SaslMessages :
    (/\ Sasl(msg)
     /\ msg[2] \in DOMAIN authExt
     /\ authExt[msg[2]].state = SASL_COMM
     /\ (msg[1] # authExt[msg[2]].agent \/ Len(msg) < 4)) =>
      /\ UNCHANGED <<authExt, saslsessions>>
      /\ lastsasl'.numerics = <<>>
      /\ lastsasl'.toclient = <<>>
      /\ lastsasl'.sent = <<>>

\* the authenticator is done after the step
DoneNext(id) == saslsessions'[id].trail[Len(saslsessions'[id].trail)] = SASL_DONE

\* a D message of the agent and a client's abort in COMM end the session
EndsSession ==
  /\ \A msg \in SaslMessages :
       (/\ Sasl(msg)
        /\ msg[2] \in DOMAIN authExt
        /\ Len(msg) = 4 /\ msg[3] = "D"
        /\ authExt[msg[2]].state = SASL_INIT \/ authExt[msg[2]].agent = msg[1]) =>
         DoneNext(authExt[msg[2]].id)
  /\ \A u \in SaslUsers :
       (/\ Authenticate(u, <<<<"*">>>>)
        /\ u \in capsasl
        /\ u \in DOMAIN authExt
        /\ authExt[u].state = SASL_COMM) =>
         /\ DoneNext(authExt[u].id)
         /\ saslsessions'[authExt[u].id].numerics = <<ERR_SASLABORTED>>

\* nothing more happens to an authenticator that is done
DoneIsFinal ==
  \A id \in 1..Len(saslsessions) :
    IsDone(id) => saslsessions'[id] = saslsessions[id]

(***************************************************************************)
(* C39: a SASL session only moves forward INIT -> COMM -> DONE: the first   *)
(* SASL message binds the agent, later messages of another agent or with    *)
(* fewer than 4 parameters change nothing, and when the session is done, by *)
(* a D message of the agent or a client's abort in COMM, exactly one of     *)
(* 903, 904 and 906 was written and the authenticator is off the user, so   *)
(* that no further message reaches it.                                      *)
(***************************************************************************)
SaslSessionMovesForward ==
  /\ [](TrailsForward /\ DoneAnnouncedAndDetached)
  /\ [][FirstBindsAgent /\ OthersIgnored /\ EndsSession /\ DoneIsFinal]_vars

\* the first session was aborted by the client in COMM and the second ended
\* with a D message of its agent that reported success
AbortedThenSucceeded ==
  /\ Len(saslsessions) = 2
  /\ saslsessions[1] = [trail |-> <<SASL_INIT, SASL_COMM, SASL_DONE>>,
                        numerics |-> <<ERR_SASLABORTED>>]
  /\ saslsessions[2] = [trail |-> <<SASL_INIT, SASL_COMM, SASL_DONE>>,
                        numerics |-> <<RPL_SASLSUCCESS>>]
  /\ authExt = <<>>
  /\ lastsasl.cmd = "SASL"

(***************************************************************************)
(* The sasl module: the server tracker and the sasl capability              *)
(***************************************************************************)
TrackedServers == {<<"s", "1">>, <<"s", "2">>, <<"h">>}
SaslTargets == {Star, <<"s", "*">>, <<"s", "1">>}

\* ServerTracker::Update
Update(server, islinked) ==
  IF sasl_target = Star THEN online
  ELSE IF GlobMatch(server, sasl_target) THEN islinked
  ELSE online

\* ServerTracker::Reset with the servers that GetServerList gives
Reset(target, servers) ==
  IF target = Star THEN TRUE
  ELSE \E s \in servers : GlobMatch(s, target)

\* ModuleSASL::ReadConfig with a <sasl:target> that is not empty
ReadConfig(target, ssl) ==
  /\ sasl_target' = target
  /\ requiressl' = ssl
  /\ online' = Reset(target, linked)
  /\ UNCHANGED <<linked, lastcap, authExt, capsasl, saslsessions, lastsasl>>
  /\ UNCHANGED <<modevars, noncmdvars, nonsaslvars>>

\* a server links: OnServerLink
ServerLink(server) ==
  /\ server \notin linked
  /\ linked' = linked \cup {server}
  /\ online' = Update(server, TRUE)
  /\ UNCHANGED <<sasl_target, requiressl, lastcap, authExt, capsasl, saslsessions, lastsasl>>
  /\ UNCHANGED <<modevars, noncmdvars, nonsaslvars>>

\* a linked server splits: OnServerSplit
ServerSplit(server) ==
  /\ server \in linked
  /\ linked' = linked \ {server}
  /\ online' = Update(server, FALSE)
  /\ UNCHANGED <<sasl_target, requiressl, lastcap, authExt, capsasl, saslsessions, lastsasl>>
  /\ UNCHANGED <<modevars, noncmdvars, nonsaslvars>>

\* SASLCap::OnList and SASLCap::OnRequest: the same answer
CapAnswer(sslapi, certificate) ==
  IF requiressl /\ sslapi /\ ~certificate THEN FALSE ELSE online

\* CAP LS or CAP REQ sasl of a user
CapCommand(cmd, sslapi, certificate) ==
  /\ lastcap' = [cmd |-> cmd, answer |-> CapAnswer(sslapi, certificate),
                 linked |-> linked, target |-> sasl_target]
  /\ UNCHANGED <<sasl_target, requiressl, online, linked, authExt, capsasl, saslsessions,
                 lastsasl>>
  /\ UNCHANGED <<modevars, noncmdvars, nonsaslvars>>

\* the module as it is constructed: the target is still empty, and servers
\* may be linked already
InitTracker ==
  /\ InitModeParser
  /\ InitTimers /\ InitXLines /\ InitParser /\ InitLog /\ InitRehash
  /\ InitAway /\ InitShun /\ InitBan /\ InitSethost /\ InitMerge /\ InitSa
  /\ authExt = <<>>
  /\ capsasl = {}
  /\ saslsessions = <<>>
  /\ lastsasl = NoSasl
  /\ sasl_target = <<>>
  /\ requiressl = FALSE
  /\ linked \in SUBSET TrackedServers
  /\ online = Reset(<<>>, linked)
  /\ lastcap = NoSasl

NextTracker ==
  \/ \E target \in SaslTargets, ssl \in BOOLEAN : ReadConfig(target, ssl)
  \/ \E server \in TrackedServers : ServerLink(server)
  \/ \E server \in TrackedServers : ServerSplit(server)
  \/ \E cmd \in {"LS", "REQ"}, sslapi, certificate \in BOOLEAN :
       CapCommand(cmd, sslapi, certificate)

SpecTracker == InitTracker /\ [][NextTracker]_vars

\* the authentication layer is available: a linked server matches the target
LayerAvailable(target, servers) ==
  target = Star \/ \E s \in servers : GlobMatch(s, target)

(***************************************************************************)
(* C40 as stated: after a Reset and any link and split events IsOnline() is *)
(* true exactly when a currently linked server's name matches the target,   *)
(* and always when the target is *; so sasl is listed in CAP LS and         *)
(* acknowledged in CAP REQ only while the authentication layer is there.    *)
(***************************************************************************)
OnlineIffTargetLinked ==
  /\ sasl_target # <<>> => (online <=> LayerAvailable(sasl_target, linked))
  /\ lastcap # NoSasl /\ lastcap.answer => LayerAvailable(lastcap.target, lastcap.linked)

====
